---- MODULE Spec2Model ----
(***************************************************************************)
(* Model of the word-problem pipeline of Calculator/python-version/        *)
(* calculator.py (class MathAI): parse_input, classify_problem, the seven  *)
(* solvers, process_query and the session history.                         *)
(*                                                                         *)
(* Text is modelled by TLA+ strings (Len, SubSeq and \o act on them as on  *)
(* sequences of characters).  Python floats are modelled by exact          *)
(* rationals [n, d] in lowest terms.  The non-ASCII glyphs of the          *)
(* explanation texts are written with ASCII stand-ins.                     *)
(***************************************************************************)
EXTENDS Integers, Sequences, FiniteSets, TLC

VARIABLES history, query, ret, lastOp, calls,
          heap, held,
          manager, accepted,
          adapters, routing_rules,
          tasks, coroutines, finished,
          args

vars == <<history, query, ret, lastOp, calls, heap, held, manager, accepted,
          adapters, routing_rules, tasks, coroutines, finished, args>>

\* the state of the objects other than the MathAI instance
otherVars == <<heap, held, manager, accepted, adapters, routing_rules,
               tasks, coroutines, finished, args>>

(***************************************************************************)
(* Bounds of the model.                                                    *)
(***************************************************************************)
\* longest history the model lets process_query build
MaxHist == 2
\* most words of a generated classifier input
MaxWords == 2

(***************************************************************************)
(* Python str primitives.                                                  *)
(***************************************************************************)
Ch(s, i) == SubSeq(s, i, i)

\* s[i:].startswith(sub), i counted from 1
StartsAt(s, i, sub) ==
    i + Len(sub) - 1 <= Len(s) /\ SubSeq(s, i, i + Len(sub) - 1) = sub

\* sub in s
Contains(s, sub) == \E i \in 1..(Len(s) - Len(sub) + 1) : StartsAt(s, i, sub)

\* any(w in s for w in words)
ContainsAny(s, words) == \E w \in words : Contains(s, w)

\* first index (1-based) at which sub occurs in s, 0 when it does not
Find(s, sub) ==
    IF Contains(s, sub)
    THEN CHOOSE i \in 1..(Len(s) - Len(sub) + 1) :
            /\ SubSeq(s, i, i + Len(sub) - 1) = sub
            /\ \A j \in 1..(i - 1) : SubSeq(s, j, j + Len(sub) - 1) # sub
    ELSE 0

UpperChars == "ABCDEFGHIJKLMNOPQRSTUVWXYZ"
LowerChars == "abcdefghijklmnopqrstuvwxyz"

LowerCh(c) ==
    IF Contains(UpperChars, c) /\ Len(c) = 1
    THEN Ch(LowerChars, Find(UpperChars, c))
    ELSE c

RECURSIVE lower(_)
\* str.lower()
lower(s) == IF s = "" THEN "" ELSE LowerCh(Ch(s, 1)) \o lower(SubSeq(s, 2, Len(s)))

IsSpace(c) == c \in {" ", "\t", "\n", "\r"}

RECURSIVE lstrip(_)
lstrip(s) == IF s # "" /\ IsSpace(Ch(s, 1)) THEN lstrip(SubSeq(s, 2, Len(s))) ELSE s

RECURSIVE rstrip(_)
rstrip(s) == IF s # "" /\ IsSpace(Ch(s, Len(s))) THEN rstrip(SubSeq(s, 1, Len(s) - 1)) ELSE s

\* str.strip()
strip(s) == rstrip(lstrip(s))

RECURSIVE replace(_, _, _)
\* str.replace(old, new), old non-empty: left to right, non-overlapping
replace(s, old, new) ==
    LET i == Find(s, old)
    IN  IF i = 0 THEN s
        ELSE SubSeq(s, 1, i - 1) \o new \o replace(SubSeq(s, i + Len(old), Len(s)), old, new)

RECURSIVE Repeat(_, _)
\* s * n
Repeat(s, n) == IF n <= 0 THEN "" ELSE s \o Repeat(s, n - 1)

RECURSIVE Join(_, _)
\* sep.join(parts)
Join(parts, sep) ==
    IF parts = <<>> THEN ""
    ELSE IF Len(parts) = 1 THEN parts[1]
    ELSE parts[1] \o sep \o Join(Tail(parts), sep)

(***************************************************************************)
(* Python float, as an exact rational in lowest terms.                     *)
(***************************************************************************)
Abs(n) == IF n < 0 THEN -n ELSE n

RECURSIVE Gcd(_, _)
Gcd(a, b) == IF b = 0 THEN a ELSE Gcd(b, a % b)

Rat(n, d) ==
    LET g == Gcd(Abs(n), Abs(d))
        s == IF d < 0 THEN -1 ELSE 1
    IN  [n |-> (s * n) \div g, d |-> (s * d) \div g]

RInt(k) == [n |-> k, d |-> 1]
RAdd(a, b) == Rat(a.n * b.d + b.n * a.d, a.d * b.d)
RSub(a, b) == Rat(a.n * b.d - b.n * a.d, a.d * b.d)
RMul(a, b) == Rat(a.n * b.n, a.d * b.d)
\* defined for b # 0 only: a float division by 0.0 raises ZeroDivisionError
RDiv(a, b) == Rat(a.n * b.d, a.d * b.n)
RLess(a, b) == a.n * b.d < b.n * a.d
RZero == RInt(0)

RECURSIVE RSum(_)
\* sum(numbers)
RSum(nums) == IF nums = <<>> THEN RZero ELSE RAdd(nums[1], RSum(Tail(nums)))

Digits == "0123456789"
IsDigit(c) == Len(c) = 1 /\ Contains(Digits, c)
DigitVal(c) == Find(Digits, c) - 1

RECURSIVE Pow10(_)
Pow10(k) == IF k <= 0 THEN 1 ELSE 10 * Pow10(k - 1)

RECURSIVE IntOfDigits(_)
IntOfDigits(s) ==
    IF s = "" THEN 0
    ELSE 10 * IntOfDigits(SubSeq(s, 1, Len(s) - 1)) + DigitVal(Ch(s, Len(s)))

RECURSIVE DigitsOfNat(_)
DigitsOfNat(k) ==
    IF k < 10 THEN Ch(Digits, k + 1)
    ELSE DigitsOfNat(k \div 10) \o Ch(Digits, (k % 10) + 1)

\* float(s) for a match s of \d+\.?\d*
float(s) ==
    LET p == Find(s, ".")
    IN  IF p = 0 THEN RInt(IntOfDigits(s))
        ELSE LET ip == SubSeq(s, 1, p - 1)
                 fp == SubSeq(s, p + 1, Len(s))
             IN  Rat(IntOfDigits(ip) * Pow10(Len(fp)) + IntOfDigits(fp), Pow10(Len(fp)))

RECURSIVE FracDigits(_, _, _)
\* decimal expansion of rem/d, 0 <= rem < d, to at most k digits
FracDigits(rem, d, k) ==
    IF rem = 0 \/ k = 0 THEN ""
    ELSE Ch(Digits, ((rem * 10) \div d) + 1) \o FracDigits((rem * 10) % d, d, k - 1)

\* str(x) of a float x: "30.0", "12.5", "-0.25"
str(x) ==
    LET a  == Abs(x.n)
        fr == FracDigits(a % x.d, x.d, 16)
    IN  (IF x.n < 0 THEN "-" ELSE "") \o DigitsOfNat(a \div x.d) \o "."
            \o (IF fr = "" THEN "0" ELSE fr)

RECURSIVE GroupThousands(_)
\* the ',' option of the format mini-language on the integer digits
GroupThousands(ds) ==
    IF Len(ds) <= 3 THEN ds
    ELSE GroupThousands(SubSeq(ds, 1, Len(ds) - 3)) \o "," \o SubSeq(ds, Len(ds) - 2, Len(ds))

\* x scaled by 100 and rounded to an integer, ties to even
Cents(x) ==
    LET a == Abs(x.n) * 100
        q == a \div x.d
        r == a % x.d
    IN  IF 2 * r > x.d \/ (2 * r = x.d /\ q % 2 = 1) THEN q + 1 ELSE q

\* f"{x:,.2f}"
fmt_money(x) ==
    LET c  == Cents(x)
        fp == DigitsOfNat(c % 100)
    IN  (IF x.n < 0 /\ c > 0 THEN "-" ELSE "") \o GroupThousands(DigitsOfNat(c \div 100))
            \o "." \o (IF Len(fp) = 1 THEN "0" \o fp ELSE fp)

\* f"{x:.2f}"
fmt_2f(x) ==
    LET c  == Cents(x)
        fp == DigitsOfNat(c % 100)
    IN  (IF x.n < 0 /\ c > 0 THEN "-" ELSE "") \o DigitsOfNat(c \div 100)
            \o "." \o (IF Len(fp) = 1 THEN "0" \o fp ELSE fp)

(***************************************************************************)
(* re.findall(r'\d+\.?\d*', s)                                             *)
(***************************************************************************)
RECURSIVE DigitRun(_, _)
\* length of the run of digits of s that starts at position i
DigitRun(s, i) ==
    IF i <= Len(s) /\ IsDigit(Ch(s, i)) THEN 1 + DigitRun(s, i + 1) ELSE 0

\* length of the greedy match of \d+\.?\d* at position i (0: no match)
NumberMatch(s, i) ==
    LET a == DigitRun(s, i)
    IN  IF a = 0 THEN 0
        ELSE IF i + a <= Len(s) /\ Ch(s, i + a) = "."
             THEN a + 1 + DigitRun(s, i + a + 1)
             ELSE a

RECURSIVE FindNumbersFrom(_, _)
FindNumbersFrom(s, i) ==
    IF i > Len(s) THEN <<>>
    ELSE LET m == NumberMatch(s, i)
         IN  IF m = 0 THEN FindNumbersFrom(s, i + 1)
             ELSE <<SubSeq(s, i, i + m - 1)>> \o FindNumbersFrom(s, i + m)

findall_numbers(s) == FindNumbersFrom(s, 1)

(***************************************************************************)
(* MathAI.__init__: the keyword tables.                                    *)
(***************************************************************************)
operation_keywords ==
    << <<"addition", <<"plus", "add", "sum", "total", "combined", "altogether",
                       "more than", "increase">> >>,
       <<"subtraction", <<"minus", "subtract", "difference", "less than", "decrease",
                          "remove", "left", "remaining">> >>,
       <<"multiplication", <<"times", "multiply", "product", "of", "per", "at", "each",
                             "twice", "double", "triple">> >>,
       <<"division", <<"divide", "divided by", "split", "share", "per", "each", "half",
                       "third">> >> >>

\* keyword -> multiplier, in the insertion order of the dict; the third
\* component tells an int literal (2) from a float (0.5)
comparison_keywords ==
    << <<"twice", RInt(2), TRUE>>, <<"double", RInt(2), TRUE>>, <<"triple", RInt(3), TRUE>>,
       <<"half", Rat(1, 2), FALSE>>, <<"third", Rat(1, 3), FALSE>>,
       <<"quarter", Rat(1, 4), FALSE>> >>

(***************************************************************************)
(* STEP 1: parse_input                                                     *)
(***************************************************************************)
RECURSIVE MapFloat(_)
MapFloat(strs) == IF strs = <<>> THEN <<>> ELSE <<float(strs[1])>> \o MapFloat(Tail(strs))

RECURSIVE SelectKeywords(_, _, _)
\* the (keyword, op_type) pairs of one op_type whose keyword is in the text
SelectKeywords(cleaned, op_type, kws) ==
    IF kws = <<>> THEN <<>>
    ELSE (IF Contains(cleaned, kws[1]) THEN << <<kws[1], op_type>> >> ELSE <<>>)
            \o SelectKeywords(cleaned, op_type, Tail(kws))

RECURSIVE ExtractKeywords(_, _)
ExtractKeywords(cleaned, table) ==
    IF table = <<>> THEN <<>>
    ELSE SelectKeywords(cleaned, table[1][1], table[1][2])
            \o ExtractKeywords(cleaned, Tail(table))

parse_input(q) ==
    LET cleaned == strip(lower(q))
    IN  [original     |-> q,
         cleaned      |-> cleaned,
         numbers      |-> MapFloat(findall_numbers(q)),
         keywords     |-> ExtractKeywords(cleaned, operation_keywords),
         has_variable |-> ContainsAny(cleaned,
                              {"x", "y", "unknown", "what number", "how many", "how much"})]

(***************************************************************************)
(* STEP 2: classify_problem.  The confidence is held in hundredths         *)
(* (0.95 is 95).                                                           *)
(***************************************************************************)
\* classify_problem, had it tested the percentage markers first
classify_problem_percentage_first(parsed) ==
    LET q == parsed.cleaned
    IN  IF ContainsAny(q, {"%", "percent", "percentage", "discount", "tax", "tip"})
        THEN <<"percentage", 95>>
        ELSE IF ContainsAny(q, {"then", "after that", "first", "next", "finally"})
        THEN <<"multi_step", 95>>
        ELSE IF parsed.has_variable /\ Contains(q, "=")
        THEN <<"equation", 95>>
        ELSE IF ContainsAny(q, {"twice", "double", "triple", "half", "times as much",
                                "more than", "less than"})
        THEN <<"comparison", 90>>
        ELSE IF /\ ContainsAny(q, {"per", "an hour", "per hour", "each", "at"})
                /\ ContainsAny(q, {"work", "worked", "earn", "make", "buy", "cost",
                                   "speed", "dollar", "$"})
        THEN <<"rate", 92>>
        ELSE IF ContainsAny(q, {"average", "mean", "median"})
        THEN <<"average", 95>>
        ELSE IF Len(parsed.numbers) >= 2
        THEN <<"arithmetic", 70>>
        ELSE <<"arithmetic", 50>>

classify_problem(parsed) ==
    LET q == parsed.cleaned
    IN  IF ContainsAny(q, {"then", "after that", "first", "next", "finally"})
        THEN <<"multi_step", 95>>
        ELSE IF ContainsAny(q, {"%", "percent", "percentage", "discount", "tax", "tip"})
        THEN <<"percentage", 95>>
        ELSE IF parsed.has_variable /\ Contains(q, "=")
        THEN <<"equation", 95>>
        ELSE IF ContainsAny(q, {"twice", "double", "triple", "half", "times as much",
                                "more than", "less than"})
        THEN <<"comparison", 90>>
        ELSE IF /\ ContainsAny(q, {"per", "an hour", "per hour", "each", "at"})
                /\ ContainsAny(q, {"work", "worked", "earn", "make", "buy", "cost",
                                   "speed", "dollar", "$"})
        THEN <<"rate", 92>>
        ELSE IF ContainsAny(q, {"average", "mean", "median"})
        THEN <<"average", 95>>
        ELSE IF Len(parsed.numbers) >= 2
        THEN <<"arithmetic", 70>>
        ELSE <<"arithmetic", 50>>

(***************************************************************************)
(* What a solver call ends with: the returned pair, or a raised exception  *)
(* with its message.                                                       *)
(***************************************************************************)
Returned(result, explanation) ==
    [raised |-> FALSE, result |-> result, explanation |-> explanation, msg |-> ""]

Raised(msg) == [raised |-> TRUE, result |-> "", explanation |-> "", msg |-> msg]

Rule == Repeat("=", 50)

RECURSIVE MapStr(_)
\* map(str, numbers)
MapStr(nums) == IF nums = <<>> THEN <<>> ELSE <<str(nums[1])>> \o MapStr(Tail(nums))

(***************************************************************************)
(* SOLVER: solve_rate_problem                                              *)
(***************************************************************************)
\* solve_rate_problem, had the currency format been tied to the "$" sign alone
solve_rate_dollar_sign_only(parsed) ==
    LET numbers == parsed.numbers
        q == parsed.cleaned
    IN  IF Len(numbers) < 2
        THEN Returned("Error", "Need at least 2 numbers for rate problems (rate and quantity)")
        ELSE
        LET rate == numbers[1]
            quantity == numbers[2]
            wage_context == ContainsAny(q, {"work", "worked", "earn", "make", "pay",
                                            "wage", "salary"})
            shopping_context == ContainsAny(q, {"buy", "bought", "purchase", "item", "cost"})
            result == RMul(rate, quantity)
            e1 == "[?] RATE PROBLEM SOLVER\n" \o Rule \o "\n\n"
                    \o "STEP 1: Identify the rate and quantity\n"
            e2 == IF wage_context
                  THEN e1 \o "  * Rate: $" \o str(rate) \o "/hour\n"
                          \o "  * Hours worked: " \o str(quantity) \o "\n"
                  ELSE IF shopping_context
                  THEN e1 \o "  * Price per item: $" \o str(rate) \o "\n"
                          \o "  * Number of items: " \o str(quantity) \o "\n"
                  ELSE e1 \o "  * Rate: " \o str(rate) \o "\n"
                          \o "  * Quantity: " \o str(quantity) \o "\n"
            e3 == e2 \o "\nSTEP 2: Apply formula: Total = Rate x Quantity\n"
                     \o "  * Calculation: " \o str(rate) \o " x " \o str(quantity)
                     \o " = " \o str(result) \o "\n"
        IN  IF Contains(parsed.original, "$")
            THEN Returned("$" \o fmt_money(result),
                          e3 \o "\n> ANSWER: $" \o fmt_money(result))
            ELSE Returned(str(result), e3 \o "\n> ANSWER: " \o str(result))

solve_rate_problem(parsed) ==
    LET numbers == parsed.numbers
        q == parsed.cleaned
    IN  IF Len(numbers) < 2
        THEN Returned("Error", "Need at least 2 numbers for rate problems (rate and quantity)")
        ELSE
        LET rate == numbers[1]
            quantity == numbers[2]
            wage_context == ContainsAny(q, {"work", "worked", "earn", "make", "pay",
                                            "wage", "salary"})
            shopping_context == ContainsAny(q, {"buy", "bought", "purchase", "item", "cost"})
            result == RMul(rate, quantity)
            e1 == "[?] RATE PROBLEM SOLVER\n" \o Rule \o "\n\n"
                    \o "STEP 1: Identify the rate and quantity\n"
            e2 == IF wage_context
                  THEN e1 \o "  * Rate: $" \o str(rate) \o "/hour\n"
                          \o "  * Hours worked: " \o str(quantity) \o "\n"
                  ELSE IF shopping_context
                  THEN e1 \o "  * Price per item: $" \o str(rate) \o "\n"
                          \o "  * Number of items: " \o str(quantity) \o "\n"
                  ELSE e1 \o "  * Rate: " \o str(rate) \o "\n"
                          \o "  * Quantity: " \o str(quantity) \o "\n"
            e3 == e2 \o "\nSTEP 2: Apply formula: Total = Rate x Quantity\n"
                     \o "  * Calculation: " \o str(rate) \o " x " \o str(quantity)
                     \o " = " \o str(result) \o "\n"
        IN  IF Contains(parsed.original, "$") \/ Contains(q, "dollar")
            THEN Returned("$" \o fmt_money(result),
                          e3 \o "\n> ANSWER: $" \o fmt_money(result))
            ELSE Returned(str(result), e3 \o "\n> ANSWER: " \o str(result))

(***************************************************************************)
(* SOLVER: solve_comparison_problem                                        *)
(***************************************************************************)
\* index of the first table entry whose keyword is in the text, 0 if none
\* FirstComparisonKeyword, had it taken the keyword that stands first in the text
FirstKeywordInText(q) ==
    IF \E k \in 1..Len(comparison_keywords) : Contains(q, comparison_keywords[k][1])
    THEN CHOOSE k \in 1..Len(comparison_keywords) :
            /\ Contains(q, comparison_keywords[k][1])
            /\ \A j \in 1..Len(comparison_keywords) :
                  Contains(q, comparison_keywords[j][1])
                      => Find(q, comparison_keywords[k][1]) <= Find(q, comparison_keywords[j][1])
    ELSE 0

FirstComparisonKeyword(q) ==
    IF \E k \in 1..Len(comparison_keywords) : Contains(q, comparison_keywords[k][1])
    THEN CHOOSE k \in 1..Len(comparison_keywords) :
            /\ Contains(q, comparison_keywords[k][1])
            /\ \A j \in 1..(k - 1) : ~Contains(q, comparison_keywords[j][1])
    ELSE 0

\* solve_comparison_problem, had "A less than B" been computed as A - B
solve_comparison_base_first(parsed) ==
    LET q == parsed.cleaned
        numbers == parsed.numbers
        head == "[?] COMPARISON PROBLEM SOLVER\n" \o Rule \o "\n\n"
        k == FirstComparisonKeyword(q)
    IN  IF k # 0 /\ numbers # <<>>
        THEN LET keyword == comparison_keywords[k][1]
                 multiplier == comparison_keywords[k][2]
                 shown == IF comparison_keywords[k][3] THEN DigitsOfNat(multiplier.n)
                          ELSE str(multiplier)
                 base_value == numbers[1]
                 result == RMul(base_value, multiplier)
             IN  Returned(str(result),
                    head \o "STEP 1: Identify the comparison\n"
                         \o "  * Base value: " \o str(base_value) \o "\n"
                         \o "  * Comparison: '" \o keyword \o "' means x "
                         \o shown \o "\n\n"
                         \o "STEP 2: Calculate\n"
                         \o "  * " \o str(base_value) \o " x " \o shown
                         \o " = " \o str(result) \o "\n"
                         \o "\n> ANSWER: " \o str(result))
        ELSE IF Contains(q, "more than") /\ Len(numbers) >= 2
        THEN LET result == RAdd(numbers[2], numbers[1])
             IN  Returned(str(result),
                    head \o "STEP 1: '" \o str(numbers[1]) \o " more than "
                         \o str(numbers[2]) \o "'\n"
                         \o "STEP 2: Add: " \o str(numbers[2]) \o " + " \o str(numbers[1])
                         \o " = " \o str(result) \o "\n"
                         \o "\n> ANSWER: " \o str(result))
        ELSE IF Contains(q, "less than") /\ Len(numbers) >= 2
        THEN LET result == RSub(numbers[1], numbers[2])
             IN  Returned(str(result),
                    head \o "STEP 1: '" \o str(numbers[1]) \o " less than "
                         \o str(numbers[2]) \o "'\n"
                         \o "STEP 2: Subtract: " \o str(numbers[2]) \o " - "
                         \o str(numbers[1]) \o " = " \o str(result) \o "\n"
                         \o "\n> ANSWER: " \o str(result))
        ELSE Returned("Error",
                "Could not parse comparison. Try: 'twice 50' or '10 more than 30'")

solve_comparison_problem(parsed) ==
    LET q == parsed.cleaned
        numbers == parsed.numbers
        head == "[?] COMPARISON PROBLEM SOLVER\n" \o Rule \o "\n\n"
        k == FirstComparisonKeyword(q)
    IN  IF k # 0 /\ numbers # <<>>
        THEN LET keyword == comparison_keywords[k][1]
                 multiplier == comparison_keywords[k][2]
                 shown == IF comparison_keywords[k][3] THEN DigitsOfNat(multiplier.n)
                          ELSE str(multiplier)
                 base_value == numbers[1]
                 result == RMul(base_value, multiplier)
             IN  Returned(str(result),
                    head \o "STEP 1: Identify the comparison\n"
                         \o "  * Base value: " \o str(base_value) \o "\n"
                         \o "  * Comparison: '" \o keyword \o "' means x "
                         \o shown \o "\n\n"
                         \o "STEP 2: Calculate\n"
                         \o "  * " \o str(base_value) \o " x " \o shown
                         \o " = " \o str(result) \o "\n"
                         \o "\n> ANSWER: " \o str(result))
        ELSE IF Contains(q, "more than") /\ Len(numbers) >= 2
        THEN LET result == RAdd(numbers[2], numbers[1])
             IN  Returned(str(result),
                    head \o "STEP 1: '" \o str(numbers[1]) \o " more than "
                         \o str(numbers[2]) \o "'\n"
                         \o "STEP 2: Add: " \o str(numbers[2]) \o " + " \o str(numbers[1])
                         \o " = " \o str(result) \o "\n"
                         \o "\n> ANSWER: " \o str(result))
        ELSE IF Contains(q, "less than") /\ Len(numbers) >= 2
        THEN LET result == RSub(numbers[2], numbers[1])
             IN  Returned(str(result),
                    head \o "STEP 1: '" \o str(numbers[1]) \o " less than "
                         \o str(numbers[2]) \o "'\n"
                         \o "STEP 2: Subtract: " \o str(numbers[2]) \o " - "
                         \o str(numbers[1]) \o " = " \o str(result) \o "\n"
                         \o "\n> ANSWER: " \o str(result))
        ELSE Returned("Error",
                "Could not parse comparison. Try: 'twice 50' or '10 more than 30'")

(***************************************************************************)
(* SOLVER: solve_percentage_advanced                                       *)
(***************************************************************************)
\* solve_percentage_advanced, had it asked for one number only
solve_percentage_one_number(parsed) ==
    LET q == parsed.cleaned
        numbers == parsed.numbers
        head == "[?] PERCENTAGE PROBLEM SOLVER\n" \o Rule \o "\n\n"
    IN  IF Len(numbers) < 1
        THEN Returned("Error", "Need at least 2 numbers for percentage problems")
        ELSE IF /\ Len(numbers) < 2
                /\ \/ Contains(q, "of")
                   \/ ~ContainsAny(q, {"increase", "raise", "add", "decrease", "discount",
                                       "reduce"})
        THEN Raised("list index out of range")
        ELSE IF Contains(q, "of")
        THEN LET percent == numbers[1]
                 value == numbers[2]
                 frac == RDiv(percent, RInt(100))
                 result == RMul(frac, value)
             IN  Returned(str(result),
                    head \o "STEP 1: Identify percentage and value\n"
                         \o "  * Percentage: " \o str(percent) \o "%\n"
                         \o "  * Value: " \o str(value) \o "\n\n"
                         \o "STEP 2: Convert percentage to decimal\n"
                         \o "  * " \o str(percent) \o "% = " \o str(percent) \o "/100 = "
                         \o str(frac) \o "\n\n"
                         \o "STEP 3: Multiply\n"
                         \o "  * " \o str(frac) \o " x " \o str(value) \o " = "
                         \o str(result) \o "\n"
                         \o "\n> ANSWER: " \o str(result))
        ELSE IF Contains(q, "increase") \/ Contains(q, "raise") \/ Contains(q, "add")
        THEN LET value == numbers[1]
                 percent == IF Len(numbers) > 1 THEN numbers[2] ELSE numbers[1]
                 change == RMul(RDiv(percent, RInt(100)), value)
                 result == RAdd(value, change)
             IN  Returned(str(result),
                    head \o "STEP 1: Calculate " \o str(percent) \o "% of " \o str(value)
                         \o "\n"
                         \o "  * " \o str(percent) \o "/100 x " \o str(value) \o " = "
                         \o str(change) \o "\n\n"
                         \o "STEP 2: Add to original\n"
                         \o "  * " \o str(value) \o " + " \o str(change) \o " = "
                         \o str(result) \o "\n"
                         \o "\n> ANSWER: " \o str(result))
        ELSE IF Contains(q, "decrease") \/ Contains(q, "discount") \/ Contains(q, "reduce")
        THEN LET value == numbers[1]
                 percent == IF Len(numbers) > 1 THEN numbers[2] ELSE numbers[1]
                 change == RMul(RDiv(percent, RInt(100)), value)
                 result == RSub(value, change)
             IN  Returned(str(result),
                    head \o "STEP 1: Calculate " \o str(percent) \o "% of " \o str(value)
                         \o "\n"
                         \o "  * " \o str(percent) \o "/100 x " \o str(value) \o " = "
                         \o str(change) \o "\n\n"
                         \o "STEP 2: Subtract from original\n"
                         \o "  * " \o str(value) \o " - " \o str(change) \o " = "
                         \o str(result) \o "\n"
                         \o "\n> ANSWER: " \o str(result))
        ELSE LET result == RMul(RDiv(numbers[1], RInt(100)), numbers[2])
             IN  Returned(str(result),
                    head \o "Calculating " \o str(numbers[1]) \o "% of " \o str(numbers[2])
                         \o " = " \o str(result) \o "\n"
                         \o "\n> ANSWER: " \o str(result))

solve_percentage_advanced(parsed) ==
    LET q == parsed.cleaned
        numbers == parsed.numbers
        head == "[?] PERCENTAGE PROBLEM SOLVER\n" \o Rule \o "\n\n"
    IN  IF Len(numbers) < 2
        THEN Returned("Error", "Need at least 2 numbers for percentage problems")
        ELSE IF Contains(q, "of")
        THEN LET percent == numbers[1]
                 value == numbers[2]
                 frac == RDiv(percent, RInt(100))
                 result == RMul(frac, value)
             IN  Returned(str(result),
                    head \o "STEP 1: Identify percentage and value\n"
                         \o "  * Percentage: " \o str(percent) \o "%\n"
                         \o "  * Value: " \o str(value) \o "\n\n"
                         \o "STEP 2: Convert percentage to decimal\n"
                         \o "  * " \o str(percent) \o "% = " \o str(percent) \o "/100 = "
                         \o str(frac) \o "\n\n"
                         \o "STEP 3: Multiply\n"
                         \o "  * " \o str(frac) \o " x " \o str(value) \o " = "
                         \o str(result) \o "\n"
                         \o "\n> ANSWER: " \o str(result))
        ELSE IF Contains(q, "increase") \/ Contains(q, "raise") \/ Contains(q, "add")
        THEN LET value == numbers[1]
                 percent == IF Len(numbers) > 1 THEN numbers[2] ELSE numbers[1]
                 change == RMul(RDiv(percent, RInt(100)), value)
                 result == RAdd(value, change)
             IN  Returned(str(result),
                    head \o "STEP 1: Calculate " \o str(percent) \o "% of " \o str(value)
                         \o "\n"
                         \o "  * " \o str(percent) \o "/100 x " \o str(value) \o " = "
                         \o str(change) \o "\n\n"
                         \o "STEP 2: Add to original\n"
                         \o "  * " \o str(value) \o " + " \o str(change) \o " = "
                         \o str(result) \o "\n"
                         \o "\n> ANSWER: " \o str(result))
        ELSE IF Contains(q, "decrease") \/ Contains(q, "discount") \/ Contains(q, "reduce")
        THEN LET value == numbers[1]
                 percent == IF Len(numbers) > 1 THEN numbers[2] ELSE numbers[1]
                 change == RMul(RDiv(percent, RInt(100)), value)
                 result == RSub(value, change)
             IN  Returned(str(result),
                    head \o "STEP 1: Calculate " \o str(percent) \o "% of " \o str(value)
                         \o "\n"
                         \o "  * " \o str(percent) \o "/100 x " \o str(value) \o " = "
                         \o str(change) \o "\n\n"
                         \o "STEP 2: Subtract from original\n"
                         \o "  * " \o str(value) \o " - " \o str(change) \o " = "
                         \o str(result) \o "\n"
                         \o "\n> ANSWER: " \o str(result))
        ELSE LET result == RMul(RDiv(numbers[1], RInt(100)), numbers[2])
             IN  Returned(str(result),
                    head \o "Calculating " \o str(numbers[1]) \o "% of " \o str(numbers[2])
                         \o " = " \o str(result) \o "\n"
                         \o "\n> ANSWER: " \o str(result))

(***************************************************************************)
(* SOLVER: solve_average_advanced                                          *)
(***************************************************************************)
solve_average_advanced(parsed) ==
    LET numbers == parsed.numbers
    IN  IF Len(numbers) < 2
        THEN Returned("Error", "Need at least 2 numbers to calculate average")
        ELSE LET total == RSum(numbers)
                 count == Len(numbers)
                 average == RDiv(total, RInt(count))
             IN  Returned(str(average),
                    "[?] AVERAGE CALCULATOR\n" \o Rule \o "\n\n"
                        \o "STEP 1: List the numbers\n"
                        \o "  * Numbers: " \o Join(MapStr(numbers), ", ") \o "\n\n"
                        \o "STEP 2: Calculate sum\n"
                        \o "  * Sum: " \o Join(MapStr(numbers), " + ") \o " = "
                        \o str(total) \o "\n\n"
                        \o "STEP 3: Divide by count\n"
                        \o "  * Average: " \o str(total) \o " / " \o DigitsOfNat(count)
                        \o " = " \o str(average) \o "\n"
                        \o "\n> ANSWER: " \o str(average))

(***************************************************************************)
(* SOLVER: solve_multi_step                                                *)
(***************************************************************************)
\* the alternatives of the pattern r'then|after that|next|,', in order
step_separators == <<"then", "after that", "next", ",">>

\* length of the match of the pattern at position i of s (0: no match)
SeparatorMatch(s, i) ==
    LET hits == {k \in 1..Len(step_separators) : StartsAt(s, i, step_separators[k])}
    IN  IF hits = {} THEN 0
        ELSE Len(step_separators[CHOOSE k \in hits : \A j \in hits : k <= j])

RECURSIVE SplitFrom(_, _, _)
\* the pieces of s from position start on, i being the scan position
SplitFrom(s, start, i) ==
    IF i > Len(s) THEN <<SubSeq(s, start, Len(s))>>
    ELSE LET m == SeparatorMatch(s, i)
         IN  IF m = 0 THEN SplitFrom(s, start, i + 1)
             ELSE <<SubSeq(s, start, i - 1)>> \o SplitFrom(s, i + m, i + m)

\* re.split(r'then|after that|next|,', s)
split_steps(s) == SplitFrom(s, 1, 1)

\* step_operation, had the tests stood in the order multiply, divide, add,
\* subtract
step_operation_product_first(step) ==
    IF Contains(step, "multiply") \/ Contains(step, "times") \/ Contains(step, "*")
    THEN "multiply"
    ELSE IF Contains(step, "divide") \/ Contains(step, "/") THEN "divide"
    ELSE IF Contains(step, "add") \/ Contains(step, "plus") \/ Contains(step, "+")
    THEN "add"
    ELSE IF Contains(step, "subtract") \/ Contains(step, "minus") \/ Contains(step, "-")
    THEN "subtract"
    ELSE "none"

\* step_operation, had a segment without an operation word been added
step_operation_default_add(step) ==
    IF Contains(step, "subtract") \/ Contains(step, "minus") \/ Contains(step, "-")
    THEN IF Contains(step, "add") \/ Contains(step, "plus") \/ Contains(step, "+")
         THEN "add" ELSE "subtract"
    ELSE IF Contains(step, "multiply") \/ Contains(step, "times") \/ Contains(step, "*")
    THEN IF Contains(step, "add") \/ Contains(step, "plus") \/ Contains(step, "+")
         THEN "add" ELSE "multiply"
    ELSE IF Contains(step, "divide") \/ Contains(step, "/")
    THEN IF Contains(step, "add") \/ Contains(step, "plus") \/ Contains(step, "+")
         THEN "add" ELSE "divide"
    ELSE "add"

\* the if/elif chain of lines 419-449: the operation a segment is given
step_operation(step) ==
    IF Contains(step, "add") \/ Contains(step, "plus") \/ Contains(step, "+")
    THEN "add"
    ELSE IF Contains(step, "subtract") \/ Contains(step, "minus") \/ Contains(step, "-")
    THEN "subtract"
    ELSE IF Contains(step, "multiply") \/ Contains(step, "times") \/ Contains(step, "*")
    THEN "multiply"
    ELSE IF Contains(step, "divide") \/ Contains(step, "/") THEN "divide"
    ELSE "none"

\* one pass of the loop body over a segment, from the loop state st
\* [result, explanation, step_num, raised]
ApplyStep(st, rawstep) ==
    LET step == strip(rawstep)
        nums_in_step == findall_numbers(step)
    IN  IF st.raised \/ nums_in_step = <<>> THEN st
        ELSE
        LET value == float(nums_in_step[1])
            result == st.result
            label == "STEP " \o DigitsOfNat(st.step_num)
            pct == Contains(step, "%") \/ Contains(step, "percent")
            change == RMul(result, RDiv(value, RInt(100)))
        IN  IF step_operation(step) = "add"
            THEN IF pct
                 THEN LET new == RAdd(result, change)
                      IN  [st EXCEPT !.result = new, !.step_num = @ + 1,
                              !.explanation = @ \o label \o ": Add " \o str(value) \o "%\n"
                                  \o "  * " \o fmt_2f(RSub(new, change)) \o " + "
                                  \o fmt_2f(change) \o " = " \o fmt_2f(new) \o "\n\n"]
                 ELSE LET new == RAdd(result, value)
                      IN  [st EXCEPT !.result = new, !.step_num = @ + 1,
                              !.explanation = @ \o label \o ": Add " \o str(value) \o "\n"
                                  \o "  * " \o str(result) \o " + " \o str(value) \o " = "
                                  \o str(new) \o "\n\n"]
            ELSE IF step_operation(step) = "subtract"
            THEN IF pct
                 THEN LET new == RSub(result, change)
                      IN  [st EXCEPT !.result = new, !.step_num = @ + 1,
                              !.explanation = @ \o label \o ": Subtract " \o str(value)
                                  \o "%\n"
                                  \o "  * " \o fmt_2f(RAdd(new, change)) \o " - "
                                  \o fmt_2f(change) \o " = " \o fmt_2f(new) \o "\n\n"]
                 ELSE LET new == RSub(result, value)
                      IN  [st EXCEPT !.result = new, !.step_num = @ + 1,
                              !.explanation = @ \o label \o ": Subtract " \o str(value)
                                  \o "\n"
                                  \o "  * " \o str(result) \o " - " \o str(value) \o " = "
                                  \o str(new) \o "\n\n"]
            ELSE IF step_operation(step) = "multiply"
            THEN LET new == RMul(result, value)
                 IN  [st EXCEPT !.result = new, !.step_num = @ + 1,
                         !.explanation = @ \o label \o ": Multiply by " \o str(value) \o "\n"
                             \o "  * " \o str(result) \o " x " \o str(value) \o " = "
                             \o str(new) \o "\n\n"]
            ELSE IF step_operation(step) = "divide"
            THEN IF value = RZero
                 THEN [st EXCEPT !.raised = TRUE]
                 ELSE LET new == RDiv(result, value)
                      IN  [st EXCEPT !.result = new, !.step_num = @ + 1,
                              !.explanation = @ \o label \o ": Divide by " \o str(value)
                                  \o "\n"
                                  \o "  * " \o str(result) \o " / " \o str(value) \o " = "
                                  \o str(new) \o "\n\n"]
            ELSE [st EXCEPT !.step_num = @ + 1]

RECURSIVE RunStepsBackwards(_, _)
\* RunSteps, had the segments been taken from the last to the first
RunStepsBackwards(st, steps) ==
    IF steps = <<>> THEN st
    ELSE ApplyStep(RunStepsBackwards(st, Tail(steps)), steps[1])

RECURSIVE RunSteps(_, _)
\* for step in steps: ...
RunSteps(st, steps) ==
    IF steps = <<>> THEN st ELSE RunSteps(ApplyStep(st, steps[1]), Tail(steps))

solve_multi_step(parsed) ==
    LET q == parsed.cleaned
        numbers == parsed.numbers
    IN  IF numbers = <<>>
        THEN Returned("Error", "Need at least one starting number")
        ELSE
        LET st0 == [result |-> numbers[1],
                    explanation |-> "[?] MULTI-STEP PROBLEM SOLVER\n" \o Rule \o "\n\n"
                        \o "STEP 1: Starting value = " \o str(numbers[1]) \o "\n\n",
                    step_num |-> 2,
                    raised |-> FALSE]
            end == RunSteps(st0, Tail(split_steps(q)))
        IN  IF end.raised
            THEN Raised("float division by zero")
            ELSE Returned(str(end.result),
                          end.explanation \o "> FINAL ANSWER: " \o str(end.result))

(***************************************************************************)
(* The SymPy calls of the equation and arithmetic solvers (parse_expr,     *)
(* Eq, solve, evalf), on the fragment the model's inputs stay in: sums,    *)
(* differences, products and quotients of decimal literals and the symbol  *)
(* x, of degree at most 1 in x.  An expression is a polynomial [a, c]      *)
(* standing for a*x + c.  Text that is no expression of the fragment is    *)
(* a parse error.                                                          *)
(***************************************************************************)
OperatorChars == "+-*/"

RECURSIVE TokensFrom(_, _)
\* the tokens of s from position i on; <<"?">> marks a character outside the fragment
TokensFrom(s, i) ==
    IF i > Len(s) THEN <<>>
    ELSE LET c == Ch(s, i)
             m == NumberMatch(s, i)
         IN  IF IsSpace(c) THEN TokensFrom(s, i + 1)
             ELSE IF m > 0 THEN <<SubSeq(s, i, i + m - 1)>> \o TokensFrom(s, i + m)
             ELSE IF c = "x" \/ Contains(OperatorChars, c) THEN <<c>> \o TokensFrom(s, i + 1)
             ELSE <<"?">>

Parsed(p, i) == [ok |-> TRUE, p |-> p, i |-> i]
ParseError == [ok |-> FALSE, p |-> [a |-> RZero, c |-> RZero], i |-> 0]

ParseFactor(toks, i) ==
    IF i > Len(toks) THEN ParseError
    ELSE IF toks[i] = "x" THEN Parsed([a |-> RInt(1), c |-> RZero], i + 1)
    ELSE IF IsDigit(Ch(toks[i], 1)) THEN Parsed([a |-> RZero, c |-> float(toks[i])], i + 1)
    ELSE ParseError

RECURSIVE ParseTermRest(_, _)
RECURSIVE TermStep(_, _, _)
\* the partial term r.p extended by the factor f that follows operator toks[r.i]
TermStep(toks, r, f) ==
    IF ~f.ok THEN ParseError
    ELSE IF toks[r.i] = "*"
    THEN IF r.p.a # RZero /\ f.p.a # RZero THEN ParseError
         ELSE ParseTermRest(toks,
                 Parsed([a |-> RAdd(RMul(r.p.a, f.p.c), RMul(f.p.a, r.p.c)),
                         c |-> RMul(r.p.c, f.p.c)], f.i))
    ELSE IF f.p.a # RZero \/ f.p.c = RZero THEN ParseError
         ELSE ParseTermRest(toks,
                 Parsed([a |-> RDiv(r.p.a, f.p.c), c |-> RDiv(r.p.c, f.p.c)], f.i))

\* the factors that follow the partial term r.p, from token r.i on
ParseTermRest(toks, r) ==
    IF ~r.ok THEN ParseError
    ELSE IF r.i > Len(toks) \/ toks[r.i] \notin {"*", "/"} THEN r
    ELSE TermStep(toks, r, ParseFactor(toks, r.i + 1))

ParseTerm(toks, i) == ParseTermRest(toks, ParseFactor(toks, i))

RECURSIVE ParseSumRest(_, _)
RECURSIVE SumStep(_, _, _)
\* the partial sum r.p extended by the term t that follows the sign toks[r.i]
SumStep(toks, r, t) ==
    IF ~t.ok THEN ParseError
    ELSE IF toks[r.i] = "+"
    THEN ParseSumRest(toks, Parsed([a |-> RAdd(r.p.a, t.p.a),
                                    c |-> RAdd(r.p.c, t.p.c)], t.i))
    ELSE ParseSumRest(toks, Parsed([a |-> RSub(r.p.a, t.p.a),
                                    c |-> RSub(r.p.c, t.p.c)], t.i))

\* the terms that follow the partial sum r.p, from token r.i on
ParseSumRest(toks, r) ==
    IF ~r.ok THEN ParseError
    ELSE IF r.i > Len(toks) THEN r
    ELSE IF toks[r.i] \notin {"+", "-"} THEN ParseError
    ELSE SumStep(toks, r, ParseTerm(toks, r.i + 1))

\* -t of a parsed term t
Negated(t) ==
    IF ~t.ok THEN ParseError
    ELSE Parsed([a |-> RSub(RZero, t.p.a), c |-> RSub(RZero, t.p.c)], t.i)

ParseTokens(toks) ==
    IF toks = <<>> THEN ParseError
    ELSE IF toks[1] = "-" THEN ParseSumRest(toks, Negated(ParseTerm(toks, 2)))
    ELSE ParseSumRest(toks, ParseTerm(toks, 1))

\* parse_expr(text, transformations='all'): [ok, p]
parse_expr(text) == ParseTokens(TokensFrom(text, 1))

\* str of a SymPy Integer or Rational
sympy_str(r) ==
    (IF r.n < 0 THEN "-" ELSE "") \o DigitsOfNat(Abs(r.n))
        \o (IF r.d = 1 THEN "" ELSE "/" \o DigitsOfNat(r.d))

\* str of the expression a*x + c
expr_str(p) ==
    LET ax == IF p.a = RInt(1) THEN "x"
              ELSE IF p.a = RInt(-1) THEN "-x"
              ELSE sympy_str(p.a) \o "*x"
    IN  IF p.a = RZero THEN sympy_str(p.c)
        ELSE IF p.c = RZero THEN ax
        ELSE IF p.c.n < 0 THEN ax \o " - " \o sympy_str(RSub(RZero, p.c))
        ELSE ax \o " + " \o sympy_str(p.c)

\* solve(Eq(l, r)): the list of the solutions in x
sympy_solve(l, r) ==
    LET a == RSub(l.a, r.a)
    IN  IF a = RZero THEN <<>> ELSE <<RDiv(RSub(r.c, l.c), a)>>

\* SplitOn, had the split been made at the first separator only (split(sep, 1))
SplitOnFirst(s, sep) ==
    IF Find(s, sep) = 0 THEN <<s>>
    ELSE <<SubSeq(s, 1, Find(s, sep) - 1), SubSeq(s, Find(s, sep) + Len(sep), Len(s))>>

RECURSIVE SplitOn(_, _)
\* str.split(sep)
SplitOn(s, sep) ==
    LET i == Find(s, sep)
    IN  IF i = 0 THEN <<s>>
        ELSE <<SubSeq(s, 1, i - 1)>> \o SplitOn(SubSeq(s, i + Len(sep), Len(s)), sep)

RECURSIVE implicit_mul(_)
\* re.sub(r'(\d)([xy])', r'\1*\2', s)
implicit_mul(s) ==
    IF Len(s) < 2 THEN s
    ELSE IF IsDigit(Ch(s, 1)) /\ Ch(s, 2) \in {"x", "y"}
    THEN Ch(s, 1) \o "*" \o Ch(s, 2) \o implicit_mul(SubSeq(s, 3, Len(s)))
    ELSE Ch(s, 1) \o implicit_mul(SubSeq(s, 2, Len(s)))

(***************************************************************************)
(* SOLVER: solve_equation_advanced                                         *)
(***************************************************************************)
EquationError(msg) ==
    Returned("Error", "Could not solve equation: " \o msg \o "\nTry: 'solve 2x + 5 = 17'")

\* equation_answer, had it returned "No solution" without the explanation
equation_answer_no_text(left, right, solution) ==
    IF solution # <<>>
    THEN Returned(sympy_str(solution[1]), "> ANSWER: " \o sympy_str(solution[1]))
    ELSE Returned("No solution", "")

\* lines 367-384, on the parsed sides and the list solve returned
equation_answer(left, right, solution) ==
    IF solution # <<>>
    THEN Returned(sympy_str(solution[1]),
            "[?] EQUATION SOLVER\n" \o Rule \o "\n\n"
                \o "STEP 1: Parse equation\n"
                \o "  * Left side: " \o expr_str(left) \o "\n"
                \o "  * Right side: " \o expr_str(right) \o "\n\n"
                \o "STEP 2: Rearrange and solve\n"
                \o "  * Equation: Eq(" \o expr_str(left) \o ", " \o expr_str(right) \o ")\n"
                \o "  * Solution: [" \o sympy_str(solution[1]) \o "]\n"
                \o "\n> ANSWER: " \o sympy_str(solution[1]))
    ELSE Returned("No solution",
            "[?] EQUATION SOLVER\n" \o Rule \o "\n\n"
                \o "STEP 1: Parse equation\n"
                \o "  * Left side: " \o expr_str(left) \o "\n"
                \o "  * Right side: " \o expr_str(right) \o "\n\n"
                \o "STEP 2: Rearrange and solve\n"
                \o "  * Equation: Eq(" \o expr_str(left) \o ", " \o expr_str(right) \o ")\n"
                \o "  * Solution: []\n")

\* lines 363-384, on what parse_expr made of the two sides
equation_parsed(left, right) ==
    IF ~left.ok \/ ~right.ok
    THEN EquationError("invalid syntax")
    ELSE equation_answer(left.p, right.p, sympy_solve(left.p, right.p))

\* lines 356-384, on the pieces of equation_str.split('=')
equation_sides(sides) ==
    IF Len(sides) # 2
    THEN EquationError("too many values to unpack (expected 2)")
    ELSE equation_parsed(parse_expr(implicit_mul(strip(sides[1]))),
                         parse_expr(implicit_mul(strip(sides[2]))))

\* solve_equation_advanced, had it left the word "solve" in the text
solve_equation_unstripped(parsed) ==
    IF ~Contains(parsed.cleaned, "=")
    THEN Returned("Error", "Equation must contain '=' sign")
    ELSE equation_sides(SplitOn(strip(parsed.cleaned), "="))

solve_equation_advanced(parsed) ==
    IF ~Contains(parsed.cleaned, "=")
    THEN Returned("Error", "Equation must contain '=' sign")
    ELSE equation_sides(SplitOn(strip(replace(replace(replace(parsed.cleaned,
                            "solve", ""), "find x", ""), "find y", "")), "="))

(***************************************************************************)
(* SOLVER: solve_arithmetic_advanced                                       *)
(***************************************************************************)
RECURSIVE RemoveWords(_, _)
\* for word in words: cleaned = cleaned.replace(word, '')
RemoveWords(s, words) ==
    IF words = <<>> THEN s ELSE RemoveWords(replace(s, words[1], ""), Tail(words))

\* arithmetic_answer, had the except branch reported an error
arithmetic_answer_no_fallback(numbers, cleaned, expr) ==
    IF expr.ok /\ expr.p.a = RZero
    THEN Returned(str(expr.p.c),
            "[?] ARITHMETIC SOLVER\n" \o Rule \o "\n\n"
                \o "STEP 1: Parse expression\n"
                \o "  * Expression: " \o cleaned \o "\n\n"
                \o "STEP 2: Evaluate\n"
                \o "  * Result: " \o str(expr.p.c) \o "\n"
                \o "\n> ANSWER: " \o str(expr.p.c))
    ELSE Returned("Error", "Could not parse expression: " \o cleaned)

\* lines 511-528, on the cleaned text and what parse_expr made of it
arithmetic_answer(numbers, cleaned, expr) ==
    IF expr.ok /\ expr.p.a = RZero
    THEN Returned(str(expr.p.c),
            "[?] ARITHMETIC SOLVER\n" \o Rule \o "\n\n"
                \o "STEP 1: Parse expression\n"
                \o "  * Expression: " \o cleaned \o "\n\n"
                \o "STEP 2: Evaluate\n"
                \o "  * Result: " \o str(expr.p.c) \o "\n"
                \o "\n> ANSWER: " \o str(expr.p.c))
    ELSE Returned(str(RSum(numbers)),
            "[?] ARITHMETIC SOLVER\n" \o Rule \o "\n\n"
                \o "Could not parse expression, summing numbers:\n"
                \o Join(MapStr(numbers), " + ") \o " = " \o str(RSum(numbers)) \o "\n"
                \o "\n> ANSWER: " \o str(RSum(numbers)))

\* lines 511-528, on the cleaned text
arithmetic_cleaned(numbers, cleaned) == arithmetic_answer(numbers, cleaned, parse_expr(cleaned))

\* solve_arithmetic_advanced, had it asked for one number only
solve_arithmetic_one_number(parsed) ==
    IF Len(parsed.numbers) < 1
    THEN Returned("Error", "Need at least 2 numbers for arithmetic")
    ELSE arithmetic_cleaned(parsed.numbers,
            replace(replace(replace(replace(
                strip(RemoveWords(parsed.cleaned,
                        <<"what", "is", "calculate", "compute", "?", "the">>)),
                "plus", "+"), "minus", "-"), "times", "*"), "divided by", "/"))

solve_arithmetic_advanced(parsed) ==
    IF Len(parsed.numbers) < 2
    THEN Returned("Error", "Need at least 2 numbers for arithmetic")
    ELSE arithmetic_cleaned(parsed.numbers,
            replace(replace(replace(replace(
                strip(RemoveWords(parsed.cleaned,
                        <<"what", "is", "calculate", "compute", "?", "the">>)),
                "plus", "+"), "minus", "-"), "times", "*"), "divided by", "/"))

(***************************************************************************)
(* process_query: the pipeline.  The call is given the history list and    *)
(* yields the list after the call, the returned triple and the calls it    *)
(* made, in order.                                                         *)
(***************************************************************************)
\* the queries the caller chooses from: every path of the pipeline
Queries ==
    {"", "  ",
     "twice 50", "more than 5",
     "What is 20% of 150?",
     "solve 2x + 5 = 17", "x + 1 = x + 2", "x = = 3",
     "I make 16 dollars an hour and I worked 40 hours",
     "average of 10, 20, 30, 40",
     "15 + 25 * 2", "2 * / 3", "hello",
     "Start with 100, add 10%, then subtract 30", "5 then divide by 0", "then"}

\* the words the solver inputs are built from
SolverVocabulary ==
    <<"twice", "half", "more than", "of", "increase", "8">>

RECURSIVE SolverWordLists(_)
\* the lists of exactly k words of SolverVocabulary
SolverWordLists(k) ==
    IF k = 0 THEN {<<>>}
    ELSE {Append(ws, SolverVocabulary[i]) :
              ws \in SolverWordLists(k - 1), i \in 1..Len(SolverVocabulary)}

\* texts for the comparison and percentage solvers
PhraseTexts ==
    {"hello", "7", "half of 200", "third of 9", "half twice 50", "twice half 50",
     "quarter 8 double 3", "triple 1.5", "10 more than 30", "5 less than 20",
     "5 less than 3 more than 20", "more than 5 less than 20", "half",
     "20% of 80", "Of 3 items, what is 20% of 150?", "Increase 200 by 15%",
     "Decrease 200 by 10%", "increase 7%", "7% discount", "raise 50 10",
     "reduce 50 10 of", "tip 10 50", "80 with a 25% discount", "add 8% to 50", "average 4", "mean 2 4 9", "4 per item",
     "3 at 4 dollars each",
     "If I work 40 hours at $25/hour, how much do I make?",
     "worked 40 hours at 25 per hour", "buy 12 items, each cost 8", "speed 60 at 2",
     "12 Dollar 3", "1.5 dollars each at 3"}

\* the text "solve a x + b = c" with the coefficient written before x
EquationText(a, b, c) ==
    "solve " \o DigitsOfNat(a) \o "x + " \o DigitsOfNat(b) \o " = " \o DigitsOfNat(c)

\* texts "solve a x + b = c" and equations with more than one "="
EquationTexts ==
    {EquationText(a, b, c) : a \in {1, 2, 4, 9}, b \in {0, 5}, c \in {5, 17}}
    \cup {"x = 3 = 3", "2x = 4 = 4", "solve x + 1 = 2 = 2", "x == 3"}

StepWords == {"add", "plus", "minus", "-", "times", "divide", "/"}

\* one segment: one or two operation words and a number
StepSegments ==
    {a \o " " \o n : a \in StepWords, n \in {"5", "10%"}}
    \cup {a \o " " \o b \o " " \o n : a \in StepWords, b \in StepWords, n \in {"5"}}

\* texts for the multi-step solver
MultiStepTexts ==
    {"100, " \o seg : seg \in StepSegments}
    \cup {"Start with 50, multiply by 2, then add 25", "8 then subtract 25 percent",
          "100 after that plus 10 percent next 4 next divide 2", "6, nothing, times 7",
          "then add 5", "3 then 4", "10 then divide 4 then times 3, - 0.5",
          "start then add", "start then 7, add 5", "10, 2 apples, then add 1",
          "9 next, divide 3 then no more"}

\* the inputs of the solvers
SolverInputs ==
    Queries \cup PhraseTexts \cup EquationTexts \cup MultiStepTexts
    \cup {Join(ws, " ") : ws \in UNION {SolverWordLists(k) : k \in 1..MaxWords}}

\* f"{confidence:.0%}"
fmt_percent(confidence) == DigitsOfNat(confidence) \o "%"

\* STEP 3: route to the solver of the type
dispatch(problem_type, parsed) ==
    IF problem_type = "percentage" THEN solve_percentage_advanced(parsed)
    ELSE IF problem_type = "equation" THEN solve_equation_advanced(parsed)
    ELSE IF problem_type = "rate" THEN solve_rate_problem(parsed)
    ELSE IF problem_type = "comparison" THEN solve_comparison_problem(parsed)
    ELSE IF problem_type = "multi_step" THEN solve_multi_step(parsed)
    ELSE IF problem_type = "average" THEN solve_average_advanced(parsed)
    ELSE solve_arithmetic_advanced(parsed)

\* the name of the solver dispatch calls
solver_name(problem_type) ==
    IF problem_type = "percentage" THEN "solve_percentage_advanced"
    ELSE IF problem_type = "equation" THEN "solve_equation_advanced"
    ELSE IF problem_type = "rate" THEN "solve_rate_problem"
    ELSE IF problem_type = "comparison" THEN "solve_comparison_problem"
    ELSE IF problem_type = "multi_step" THEN "solve_multi_step"
    ELSE IF problem_type = "average" THEN "solve_average_advanced"
    ELSE "solve_arithmetic_advanced"

\* with_confidence, had it used self.confidence_threshold (0.7) for the note
with_confidence_threshold(explanation, confidence) ==
    IF confidence < 70
    THEN explanation \o "\n\n(Confidence: " \o fmt_percent(confidence)
            \o " - If incorrect, try rephrasing)"
    ELSE explanation

\* the explanation with the confidence note of lines 82-83
with_confidence(explanation, confidence) ==
    IF confidence < 80
    THEN explanation \o "\n\n(Confidence: " \o fmt_percent(confidence)
            \o " - If incorrect, try rephrasing)"
    ELSE explanation

\* lines 56-57: the empty or whitespace-only query
empty_query(h) ==
    [history |-> h, result |-> "", explanation |-> "Please enter a question.",
     success |-> FALSE, calls |-> <<>>]

\* on_exception, had it logged the failed call
on_exception_logged(h, msg, made) ==
    [history |-> Append(h, [query |-> "", result |-> "", explanation |-> msg,
                            type |-> "", confidence |-> 0]),
     result |-> "",
     explanation |-> "Error: " \o msg
         \o "\n\nTry rephrasing your question with clear numbers and relationships.",
     success |-> FALSE, calls |-> made]

\* on_exception, had it left the exception's message out
on_exception_no_message(h, msg, made) ==
    [history |-> h, result |-> "",
     explanation |-> "Error\n\nTry rephrasing your question with clear numbers and relationships.",
     success |-> FALSE, calls |-> made]

\* lines 96-98: the handler of an exception raised in the pipeline
on_exception(h, msg, made) ==
    [history |-> h, result |-> "",
     explanation |-> "Error: " \o msg
         \o "\n\nTry rephrasing your question with clear numbers and relationships.",
     success |-> FALSE, calls |-> made]

\* on_completion, had it reported a solver-level "Error" as a failure
on_completion_error_fails(h, q, problem_type, confidence, out, made) ==
    LET explanation == with_confidence(out.explanation, confidence)
    IN  [history |-> Append(h, [query |-> q, result |-> out.result,
                                explanation |-> explanation, type |-> problem_type,
                                confidence |-> confidence]),
         result |-> out.result, explanation |-> explanation,
         success |-> (out.result # "Error"),
         calls |-> Append(made, "history.append")]

\* on_completion, had it put the new entry first (history.insert(0, ...))
on_completion_prepend(h, q, problem_type, confidence, out, made) ==
    LET explanation == with_confidence(out.explanation, confidence)
    IN  [history |-> <<[query |-> q, result |-> out.result,
                        explanation |-> explanation, type |-> problem_type,
                        confidence |-> confidence]>> \o h,
         result |-> out.result, explanation |-> explanation, success |-> TRUE,
         calls |-> Append(made, "history.append")]

\* on_completion, had it marked the answer of a query that is in the history
on_completion_remembers(h, q, problem_type, confidence, out, made) ==
    LET explanation ==
            with_confidence(out.explanation, confidence)
                \o (IF \E i \in 1..Len(h) : h[i].query = q THEN "\n(asked before)" ELSE "")
    IN  [history |-> Append(h, [query |-> q, result |-> out.result,
                                explanation |-> explanation, type |-> problem_type,
                                confidence |-> confidence]),
         result |-> out.result, explanation |-> explanation, success |-> TRUE,
         calls |-> Append(made, "history.append")]

\* lines 81-94: the solver has returned out: note, history entry, return
on_completion(h, q, problem_type, confidence, out, made) ==
    LET explanation == with_confidence(out.explanation, confidence)
    IN  [history |-> Append(h, [query |-> q, result |-> out.result,
                                explanation |-> explanation, type |-> problem_type,
                                confidence |-> confidence]),
         result |-> out.result, explanation |-> explanation, success |-> TRUE,
         calls |-> Append(made, "history.append")]

\* lines 63-79 on the parsed query
classify_and_solve(parsed, cls) ==
    [query |-> parsed.original, problem_type |-> cls[1], confidence |-> cls[2],
     out |-> dispatch(cls[1], parsed)]

classified(parsed) == classify_and_solve(parsed, classify_problem(parsed))

\* lines 59-79 for a query: the classification and what the solver call
\* ends with (they depend on the query alone)
solve_query(q) == classified(parse_input(q))

\* solve_query on each query of a session or solver input, computed once
solved_queries == {solve_query(q) : q \in SolverInputs}

solved(q) == CHOOSE s \in solved_queries : s.query = q

\* finish, had the history entry been appended before the solver was called
finish_log_before_solve(h, q, s, made) ==
    IF s.out.raised
    THEN on_exception(Append(h, [query |-> q, result |-> "", explanation |-> "",
                                 type |-> s.problem_type, confidence |-> s.confidence]),
                      s.out.msg, <<made[1], made[2], "history.append", made[3]>>)
    ELSE on_completion(h, q, s.problem_type, s.confidence, s.out, made)

\* lines 81-98 on the outcome s of lines 59-79
finish(h, q, s, made) ==
    IF s.out.raised
    THEN on_exception(h, s.out.msg, made)
    ELSE on_completion(h, q, s.problem_type, s.confidence, s.out, made)

solved_and_named(h, q, s) ==
    finish(h, q, s, <<"parse_input", "classify_problem", solver_name(s.problem_type)>>)

\* lines 59-94: parse, classify, solve, log
pipeline(h, q) == solved_and_named(h, q, solved(q))

\* process_query without the check of lines 56-57
process_query_unchecked(h, q) == pipeline(h, q)

process_query(h, q) ==
    IF q = "" \/ strip(q) = "" THEN empty_query(h) ELSE pipeline(h, q)

\* get_history, had it handed the list over and started a new one
get_history_drain(h) == [history |-> <<>>, list |-> h]

\* get_history: returns the list and leaves it as it is
get_history(h) == [history |-> h, list |-> h]

\* clear_history, had it named the method without calling it (self.history.clear)
clear_history_noop(h) == [history |-> h]

\* clear_history: self.history = []
clear_history(h) == [history |-> <<>>]

(***************************************************************************)
(* The session: one MathAI instance and a caller that makes any sequence   *)
(* of process_query, get_history and clear_history calls.                  *)
(*   history  self.history                                                 *)
(*   query    the argument of the last process_query call                  *)
(*   ret      what the last call returned                                  *)
(*   lastOp   the last call made                                           *)
(*   calls    the calls the last process_query call made, in order         *)
(***************************************************************************)
NoRet == [result |-> "", explanation |-> "", success |-> FALSE, list |-> <<>>,
          category |-> "", confidence |-> 0]

\* no list is held, no ConversationManager and no Orchestrator is in use
NoHeap == heap = <<>> /\ held = 0

NoManager == manager = <<>> /\ accepted = <<>>

NoOrchestrator ==
    /\ adapters = <<>>
    /\ routing_rules = <<>>
    /\ tasks = <<>>
    /\ coroutines = <<>>
    /\ finished = <<>>

NoOtherObjects == NoHeap /\ NoManager /\ NoOrchestrator /\ args = <<>>

Init ==
    /\ history = <<>>
    /\ query = ""
    /\ ret = NoRet
    /\ lastOp = "init"
    /\ calls = <<>>
    /\ NoOtherObjects

\* the state after a process_query(q) call that ended as r
Called(q, r) ==
    /\ history' = r.history
    /\ ret' = [NoRet EXCEPT !.result = r.result, !.explanation = r.explanation,
                            !.success = r.success]
    /\ calls' = r.calls
    /\ query' = q
    /\ lastOp' = "process_query"
    /\ UNCHANGED otherVars

ProcessQuery ==
    \E q \in Queries :
        /\ Len(history) < MaxHist
        /\ Called(q, process_query(history, q))

GetHistory ==
    /\ history' = get_history(history).history
    /\ ret' = [NoRet EXCEPT !.list = get_history(history).list]
    /\ lastOp' = "get_history"
    /\ UNCHANGED <<query, calls>>
    /\ UNCHANGED otherVars

ClearHistory ==
    /\ history' = clear_history(history).history
    /\ ret' = NoRet
    /\ lastOp' = "clear_history"
    /\ UNCHANGED <<query, calls>>
    /\ UNCHANGED otherVars

Next == ProcessQuery \/ GetHistory \/ ClearHistory

Spec == Init /\ [][Next]_vars

(***************************************************************************)
(* The classifier alone, on inputs built from a vocabulary of marker       *)
(* words.                                                                  *)
(***************************************************************************)
Vocabulary ==
    <<"then", "Finally", "%", "discount", "x", "=", "twice", "more than", "per",
      "cost", "average", "5", "7">>

RECURSIVE WordLists(_)
\* the lists of exactly k vocabulary words
WordLists(k) ==
    IF k = 0 THEN {<<>>}
    ELSE {Append(ws, Vocabulary[i]) : ws \in WordLists(k - 1), i \in 1..Len(Vocabulary)}

ClassifierInputs == {Join(ws, " ") : ws \in UNION {WordLists(k) : k \in 1..MaxWords}}

InitClassifier ==
    /\ history = <<>>
    /\ query \in ClassifierInputs
    /\ ret = NoRet
    /\ lastOp = "init"
    /\ calls = <<>>
    /\ NoOtherObjects

Classify ==
    /\ lastOp = "init"
    /\ LET cls == classify_problem(parse_input(query))
       IN  ret' = [NoRet EXCEPT !.category = cls[1], !.confidence = cls[2]]
    /\ lastOp' = "classify_problem"
    /\ UNCHANGED <<history, query, calls>>
    /\ UNCHANGED otherVars

NextClassifier == Classify

SpecClassifier == InitClassifier /\ [][NextClassifier]_vars

(***************************************************************************)
(* The solvers alone and one process_query call, on the solver inputs.     *)
(* After Solve, ret is what the solver call ended with (Returned or        *)
(* Raised) and lastOp is the solver's name.                                *)
(***************************************************************************)
ProblemTypes ==
    {"rate", "comparison", "percentage", "equation", "multi_step", "average", "arithmetic"}

InitSolver ==
    /\ history = <<>>
    /\ query \in SolverInputs
    /\ ret = NoRet
    /\ lastOp = "init"
    /\ calls = <<>>
    /\ NoOtherObjects

Solve ==
    \E t \in ProblemTypes :
        /\ lastOp = "init"
        /\ ret' = dispatch(t, parse_input(query))
        /\ lastOp' = solver_name(t)
        /\ UNCHANGED <<history, query, calls>>
        /\ UNCHANGED otherVars

ProcessInput ==
    /\ lastOp = "init"
    /\ Called(query, process_query(history, query))

NextSolver == Solve \/ ProcessInput

SpecSolver == InitSolver /\ [][NextSolver]_vars

(***************************************************************************)
(* The MathAI instance with its lists as objects: self.history is a        *)
(* reference to a list, get_history hands that reference to the caller,    *)
(* process_query appends to the list object in place.                      *)
(*   heap     the contents of the list objects                             *)
(*   history  the reference self.history                                   *)
(*   held     the reference the caller got from its last get_history call  *)
(*            (None before the first)                                      *)
(***************************************************************************)
\* the list objects: at most two are referred to at any time
Refs == {1, 2, 3}

None == 0

ListQueries == {"15 + 25 * 2", "hello", "  "}

\* a list object that neither self.history nor the caller refers to
unused_list(self, h) == CHOOSE r \in Refs : r # self /\ r # h

\* process_query on the list object: line 86 appends to it in place
appended_in_place(hp, self, r) ==
    [heap |-> [hp EXCEPT ![self] = r.history], result |-> r.result,
     explanation |-> r.explanation, success |-> r.success, calls |-> r.calls]

process_query_list(hp, self, q) == appended_in_place(hp, self, process_query(hp[self], q))

\* get_history: the reference itself is returned
get_history_list(self) == self

\* clear_history, had it emptied the list object (self.history.clear())
clear_history_in_place(hp, self, h) ==
    [heap |-> [hp EXCEPT ![self] = <<>>], history |-> self]

\* clear_history: self.history is bound to a new empty list object
clear_history_list(hp, self, h) ==
    LET r == unused_list(self, h)
    IN  [heap |-> [hp EXCEPT ![r] = <<>>], history |-> r]

InitList ==
    /\ heap = [r \in Refs |-> <<>>]
    /\ history = 1
    /\ held = None
    /\ query = ""
    /\ ret = NoRet
    /\ lastOp = "init"
    /\ calls = <<>>
    /\ NoManager /\ NoOrchestrator /\ args = <<>>

\* the state after a process_query(q) call on the list object that ended as r
CalledList(q, r) ==
    /\ heap' = r.heap
    /\ ret' = [NoRet EXCEPT !.result = r.result, !.explanation = r.explanation,
                            !.success = r.success]
    /\ calls' = r.calls
    /\ query' = q
    /\ lastOp' = "process_query"
    /\ UNCHANGED <<history, held, manager, accepted, adapters, routing_rules,
                   tasks, coroutines, finished, args>>

ProcessQueryList ==
    \E q \in ListQueries :
        /\ Len(heap[history]) < MaxHist
        /\ CalledList(q, process_query_list(heap, history, q))

GetHistoryList ==
    /\ held' = get_history_list(history)
    /\ ret' = [NoRet EXCEPT !.list = heap[get_history_list(history)]]
    /\ lastOp' = "get_history"
    /\ UNCHANGED <<history, heap, query, calls, manager, accepted, adapters,
                   routing_rules, tasks, coroutines, finished, args>>

ClearHistoryList ==
    /\ LET r == clear_history_list(heap, history, held)
       IN  heap' = r.heap /\ history' = r.history
    /\ ret' = NoRet
    /\ lastOp' = "clear_history"
    /\ UNCHANGED <<held, query, calls, manager, accepted, adapters,
                   routing_rules, tasks, coroutines, finished, args>>

NextList == ProcessQueryList \/ GetHistoryList \/ ClearHistoryList

SpecList == InitList /\ [][NextList]_vars

(***************************************************************************)
(* The ConversationManager of the chatbot and a caller that makes any      *)
(* sequence of add_message and reset calls.                                *)
(*   manager   the fields of the instance: history, turn_count,            *)
(*             last_user_message, last_assistant_message                   *)
(*             (None is <<>>, the text t is <<t>>)                         *)
(*   accepted  every message appended to a history so far, in order       *)
(*   args      the arguments of the last call                              *)
(*   ret       what the last add_message call did                          *)
(***************************************************************************)
MAX_HISTORY_LENGTH == 20

\* most messages the model lets a conversation accept
MaxAccepted == 22

Roles == {"user", "assistant"}

Contents == {"", " ", "hi", "hi "}

\* __init__, and the assignments of reset
new_manager ==
    [history |-> <<>>, turn_count |-> 0,
     last_user_message |-> <<>>, last_assistant_message |-> <<>>]

\* _trim_history, had it dropped one message
trim_history_one(h) ==
    IF Len(h) > MAX_HISTORY_LENGTH THEN SubSeq(h, 2, Len(h)) ELSE h

\* _trim_history: self.history[2:] when the list is longer than the maximum
trim_history(h) ==
    IF Len(h) > MAX_HISTORY_LENGTH THEN SubSeq(h, 3, Len(h)) ELSE h

\* lines 45-58: append, update the tracker of the role, trim
appended(m, role, content) ==
    [history |-> trim_history(Append(m.history,
                                     [role |-> role, content |-> strip(content)])),
     turn_count |-> IF role = "user" THEN m.turn_count + 1 ELSE m.turn_count,
     last_user_message |->
         IF role = "user" THEN <<content>> ELSE m.last_user_message,
     last_assistant_message |->
         IF role = "user" THEN m.last_assistant_message ELSE <<content>>]

add_message(m, role, content) ==
    IF content = "" \/ Len(strip(content)) = 0
    THEN [manager |-> m, outcome |-> "empty"]
    ELSE IF role = "user" /\ <<content>> = m.last_user_message
    THEN [manager |-> m, outcome |-> "duplicate"]
    ELSE IF role = "assistant" /\ <<content>> = m.last_assistant_message
    THEN [manager |-> m, outcome |-> "duplicate"]
    ELSE [manager |-> appended(m, role, content), outcome |-> "added"]

reset(m) == new_manager

\* the k-th message of a conversation in which the user asks question
\* after question and the assistant answers each
exchange(k) ==
    IF k % 2 = 1
    THEN [role |-> "user", content |-> "q" \o ToString((k + 1) \div 2)]
    ELSE [role |-> "assistant", content |-> "a" \o ToString(k \div 2)]

\* the instance after the first n messages of that conversation
RECURSIVE after_exchanges(_)
after_exchanges(n) ==
    IF n = 0 THEN new_manager
    ELSE add_message(after_exchanges(n - 1), exchange(n).role, exchange(n).content).manager

\* conversations already held when the caller of the model takes over; the
\* new instance is the state after its first reset call
Held == {MAX_HISTORY_LENGTH - 1, MAX_HISTORY_LENGTH}

InitConversation ==
    /\ \E n \in Held :
          /\ manager = after_exchanges(n)
          /\ accepted = [k \in 1..n |-> exchange(k)]
    /\ args = <<>>
    /\ ret = [outcome |-> "none"]
    /\ lastOp = "init"
    /\ history = <<>> /\ query = "" /\ calls = <<>>
    /\ NoHeap /\ NoOrchestrator

\* the state after an add_message(role, content) call that ended as r
Added(role, content, r) ==
    /\ manager' = r.manager
    /\ accepted' = IF r.outcome = "added"
                   THEN Append(accepted, [role |-> role, content |-> strip(content)])
                   ELSE accepted
    /\ ret' = [outcome |-> r.outcome]
    /\ args' = <<role, content>>
    /\ lastOp' = "add_message"
    /\ UNCHANGED <<history, query, calls, heap, held, adapters, routing_rules,
                   tasks, coroutines, finished>>

AddMessage ==
    \E role \in Roles, content \in Contents :
        /\ Len(accepted) < MaxAccepted
        /\ Added(role, content, add_message(manager, role, content))

Reset ==
    /\ manager' = reset(manager)
    /\ ret' = [outcome |-> "none"]
    /\ args' = <<>>
    /\ lastOp' = "reset"
    /\ UNCHANGED <<accepted, history, query, calls, heap, held, adapters,
                   routing_rules, tasks, coroutines, finished>>

NextConversation == AddMessage \/ Reset

SpecConversation == InitConversation /\ [][NextConversation]_vars

(***************************************************************************)
(* The Orchestrator of the chatbot's ARC package and a caller that makes   *)
(* any sequence of add_adapter, remove_adapter, set_routing_rule and       *)
(* route_task calls.                                                       *)
(*   adapters       self._adapters: the registered adapters in the order   *)
(*                  of the dict (the order their names were first added)   *)
(*   routing_rules  self._routing_rules: pairs <<task_type, adapter_name>> *)
(*   args           the arguments of the last call                         *)
(*   ret            what the last call returned or raised                  *)
(***************************************************************************)
AdapterNames == {"gpt-4", "claude-3"}

\* the adapter classes: the two of example_usage.py and a subclass that
\* keeps supports_task_type of ModelAdapter and whose call can raise
AdapterKinds == {"MockGPTAdapter", "MockClaudeAdapter", "ModelAdapter"}

TaskTypes == {"text-generation", "analysis", "translation"}

supports_task_type(adapter, task_type) ==
    IF adapter.kind = "MockGPTAdapter"
    THEN task_type \in {"text-generation", "completion"}
    ELSE IF adapter.kind = "MockClaudeAdapter"
    THEN task_type \in {"analysis", "summarization"}
    ELSE TRUE

\* the names of the registered adapters, in order
adapter_names(ads) == [k \in 1..Len(ads) |-> ads[k].name]

\* name in self._adapters
registered(ads, name) == \E k \in 1..Len(ads) : ads[k].name = name

\* self._adapters[name]
adapter_of(ads, name) == ads[CHOOSE k \in 1..Len(ads) : ads[k].name = name]

\* add_adapter: a dict assignment, a name already there keeps its place
add_adapter(ads, adapter) ==
    IF registered(ads, adapter.name)
    THEN [k \in 1..Len(ads) |-> IF ads[k].name = adapter.name THEN adapter ELSE ads[k]]
    ELSE Append(ads, adapter)

remove_adapter(ads, name) == SelectSeq(ads, LAMBDA a : a.name # name)

\* task_type in self._routing_rules
has_rule(rules, task_type) == \E p \in rules : p[1] = task_type

\* self._routing_rules[task_type]
rule_of(rules, task_type) == (CHOOSE p \in rules : p[1] = task_type)[2]

Done(rules) == [raised |-> FALSE, error_type |-> "None", error |-> "None", rules |-> rules]

Failed(type, text, rules) ==
    [raised |-> TRUE, error_type |-> type, error |-> text, rules |-> rules]

\* set_routing_rule, had it not looked the adapter up
set_routing_rule_unchecked(ads, rules, task_type, name) ==
    Done({p \in rules : p[1] # task_type} \cup {<<task_type, name>>})

set_routing_rule(ads, rules, task_type, name) ==
    IF ~registered(ads, name)
    THEN Failed("ValueError", "Adapter '" \o name \o "' not registered", rules)
    ELSE Done({p \in rules : p[1] # task_type} \cup {<<task_type, name>>})

\* str(list(self._adapters.keys()))
RECURSIVE quoted_names(_)
quoted_names(names) ==
    IF names = <<>> THEN ""
    ELSE IF Len(names) = 1 THEN "'" \o names[1] \o "'"
    ELSE "'" \o names[1] \o "', " \o quoted_names(Tail(names))

keys_text(ads) == "[" \o quoted_names(adapter_names(ads)) \o "]"

\* the adapters that support the task type, in the order of the dict
supporting(ads, task_type) ==
    SelectSeq(ads, LAMBDA a : supports_task_type(a, task_type))

Routed(adapter, how) ==
    [raised |-> FALSE, adapter |-> adapter.name, kind |-> adapter.kind, how |-> how,
     error_type |-> "None", error |-> "None"]

NotRouted(type, text) ==
    [raised |-> TRUE, adapter |-> "None", kind |-> "None", how |-> "None",
     error_type |-> type, error |-> text]

\* route_task up to its await: the adapter the task goes to (lines 89-106)
select_adapter(ads, rules, task_type) ==
    IF has_rule(rules, task_type)
    THEN IF registered(ads, rule_of(rules, task_type))
         THEN Routed(adapter_of(ads, rule_of(rules, task_type)), "rule-based")
         ELSE NotRouted("KeyError", "'" \o rule_of(rules, task_type) \o "'")
    ELSE IF supporting(ads, task_type) # <<>>
    THEN Routed(supporting(ads, task_type)[1], "capability-based")
    ELSE NotRouted("ValueError",
                   "No adapter found for task type '" \o task_type
                       \o "'. Available adapters: " \o keys_text(ads))

ARCResponse(task_id, output, success, error) ==
    [task_id |-> task_id, output |-> output, success |-> success, error |-> error]

\* what a call of the adapter can end with: the two mock adapters return a
\* response, another adapter returns one or raises
call_outcomes(route, task) ==
    {[raised |-> FALSE, error_type |-> "None", error |-> "None",
      response |-> ARCResponse(task.task_id, "[" \o route.adapter \o "] " \o task.task_type,
                               TRUE, "None")]}
    \cup
    (IF route.kind = "ModelAdapter"
     THEN {[raised |-> TRUE, error_type |-> "TimeoutError", error |-> "timed out",
            response |-> ARCResponse("None", "None", FALSE, "None")]}
     ELSE {})

\* route_task as a whole: what the caller gets for each outcome of the
\* adapter call
route_task(ads, rules, task) ==
    LET route == select_adapter(ads, rules, task.task_type)
    IN  IF route.raised
        THEN {[raised |-> TRUE, error_type |-> route.error_type, error |-> route.error,
               adapter |-> "None", how |-> "None",
               response |-> ARCResponse("None", "None", FALSE, "None")]}
        ELSE {[raised |-> o.raised, error_type |-> o.error_type, error |-> o.error,
               adapter |-> route.adapter, how |-> route.how, response |-> o.response]
              : o \in call_outcomes(route, task)}

NoCall == [raised |-> FALSE, error_type |-> "None", error |-> "None"]

InitOrchestrator ==
    /\ adapters = <<>>
    /\ routing_rules = {}
    /\ tasks = <<>> /\ coroutines = <<>> /\ finished = <<>>
    /\ args = <<>>
    /\ ret = NoCall
    /\ lastOp = "init"
    /\ history = <<>> /\ query = "" /\ calls = <<>>
    /\ NoHeap /\ NoManager

AddAdapter ==
    \E name \in AdapterNames, kind \in AdapterKinds :
        /\ adapters' = add_adapter(adapters, [name |-> name, kind |-> kind])
        /\ args' = <<name, kind>>
        /\ ret' = NoCall
        /\ lastOp' = "add_adapter"
        /\ UNCHANGED <<routing_rules, tasks, coroutines, finished, history, query,
                       calls, heap, held, manager, accepted>>

RemoveAdapter ==
    \E name \in AdapterNames :
        /\ adapters' = remove_adapter(adapters, name)
        /\ args' = <<name>>
        /\ ret' = NoCall
        /\ lastOp' = "remove_adapter"
        /\ UNCHANGED <<routing_rules, tasks, coroutines, finished, history, query,
                       calls, heap, held, manager, accepted>>

\* the state after a set_routing_rule call that ended as r
RuleSet(r) ==
    /\ routing_rules' = r.rules
    /\ ret' = [raised |-> r.raised, error_type |-> r.error_type, error |-> r.error]
    /\ lastOp' = "set_routing_rule"
    /\ UNCHANGED <<adapters, tasks, coroutines, finished, history, query,
                   calls, heap, held, manager, accepted>>

SetRoutingRule ==
    \E task_type \in TaskTypes, name \in AdapterNames :
        /\ args' = <<task_type, name>>
        /\ RuleSet(set_routing_rule(adapters, routing_rules, task_type, name))

RouteTask ==
    \E task_type \in TaskTypes :
        LET task == [task_id |-> "task-001", task_type |-> task_type]
        IN  /\ ret' \in route_task(adapters, routing_rules, task)
            /\ args' = task
            /\ lastOp' = "route_task"
            /\ UNCHANGED <<adapters, routing_rules, tasks, coroutines, finished,
                           history, query, calls, heap, held, manager, accepted>>

NextOrchestrator == AddAdapter \/ RemoveAdapter \/ SetRoutingRule \/ RouteTask

SpecOrchestrator == InitOrchestrator /\ [][NextOrchestrator]_vars

(***************************************************************************)
(* One Orchestrator and a caller that awaits route_tasks_parallel calls.   *)
(* gather wraps each route_task coroutine in a task of the event loop; the *)
(* loop starts them in the order they were created, each runs up to the    *)
(* await of its adapter call, and the adapter calls end in any order.      *)
(*   tasks       the argument of the call in progress                      *)
(*   coroutines  for each task, how far its route_task coroutine is and    *)
(*               what it ended with                                        *)
(*   finished    the positions of the coroutines that ended, in the order  *)
(*               they ended                                                *)
(*   ret         the list the last route_tasks_parallel call returned      *)
(***************************************************************************)
\* most tasks of one route_tasks_parallel call
MaxTasks == 2

Registry(ads, rules) == [adapters |-> ads, routing_rules |-> rules]

\* the orchestrator of main (example_usage.py:56-66)
ExampleRegistry ==
    LET ads == add_adapter(add_adapter(<<>>, [name |-> "gpt-4", kind |-> "MockGPTAdapter"]),
                           [name |-> "claude-3", kind |-> "MockClaudeAdapter"])
    IN  Registry(ads, set_routing_rule(ads, {}, "text-generation", "gpt-4").rules)

\* the orchestrators the calls are made on: the one of main, the one of
\* main after remove_adapter("gpt-4"), and one whose only adapter can raise
Registries ==
    {ExampleRegistry,
     Registry(remove_adapter(ExampleRegistry.adapters, "gpt-4"),
              ExampleRegistry.routing_rules),
     Registry(add_adapter(<<>>, [name |-> "gpt-4", kind |-> "ModelAdapter"]), {})}

\* task-000, task-001, ... (example_usage.py:81)
task_id_of(i) == "task-00" \o ToString(i - 1)

TaskLists ==
    UNION {{[i \in 1..n |-> [task_id |-> task_id_of(i), task_type |-> types[i]]]
            : types \in [1..n -> TaskTypes]} : n \in 0..MaxTasks}

NoResponse == ARCResponse("None", "None", FALSE, "None")

Created ==
    [pc |-> "created", raised |-> FALSE, error |-> "None", adapter |-> "None",
     kind |-> "None", response |-> NoResponse]

\* a coroutine that raised
Raising(text) ==
    [pc |-> "done", raised |-> TRUE, error |-> text, adapter |-> "None",
     kind |-> "None", response |-> NoResponse]

\* a coroutine at the await of line 94 or 100
Awaiting(route) ==
    [pc |-> "awaiting", raised |-> FALSE, error |-> "None", adapter |-> route.adapter,
     kind |-> route.kind, response |-> NoResponse]

\* a coroutine whose adapter call ended as o
Ended(c, o) ==
    [pc |-> "done", raised |-> o.raised, error |-> o.error, adapter |-> c.adapter,
     kind |-> c.kind, response |-> o.response]

\* route_task from its start to its await
started(ads, rules, task) ==
    LET route == select_adapter(ads, rules, task.task_type)
    IN  IF route.raised THEN Raising(route.error) ELSE Awaiting(route)

\* gather, had it handed the results over in the order the calls ended
gather_as_completed(cs, order) == [k \in 1..Len(order) |-> cs[order[k]]]

\* asyncio.gather(..., return_exceptions=True): the results and exceptions
\* in the order of the awaitables
gather(cs, order) == cs

\* lines 125-137: an exception becomes an error response
route_tasks_parallel(ts, responses) ==
    [i \in 1..Len(responses) |->
        IF responses[i].raised
        THEN ARCResponse(ts[i].task_id, "None", FALSE, responses[i].error)
        ELSE responses[i].response]

InitParallel ==
    /\ \E r \in Registries : adapters = r.adapters /\ routing_rules = r.routing_rules
    /\ tasks = <<>> /\ coroutines = <<>> /\ finished = <<>>
    /\ args = <<>>
    /\ ret = <<>>
    /\ lastOp = "init"
    /\ history = <<>> /\ query = "" /\ calls = <<>>
    /\ NoHeap /\ NoManager

\* route_tasks_parallel is called: the coroutines are created (line 120)
CallParallel ==
    \E ts \in TaskLists :
        /\ lastOp \in {"init", "route_tasks_parallel"}
        /\ tasks' = ts
        /\ args' = ts
        /\ coroutines' = [i \in 1..Len(ts) |-> Created]
        /\ finished' = <<>>
        /\ ret' = <<>>
        /\ lastOp' = "gather"
        /\ UNCHANGED <<adapters, routing_rules, history, query, calls, heap, held,
                       manager, accepted>>

\* the event loop runs the next coroutine up to its await
StartRouting ==
    \E i \in 1..Len(coroutines) :
        /\ lastOp = "gather"
        /\ coroutines[i].pc = "created"
        /\ \A j \in 1..(i - 1) : coroutines[j].pc # "created"
        /\ coroutines' = [coroutines EXCEPT ![i] = started(adapters, routing_rules, tasks[i])]
        /\ finished' = IF coroutines'[i].pc = "done" THEN Append(finished, i) ELSE finished
        /\ UNCHANGED <<adapters, routing_rules, tasks, args, ret, lastOp, history,
                       query, calls, heap, held, manager, accepted>>

\* the adapter call of one coroutine ends
AdapterCallEnds ==
    \E i \in 1..Len(coroutines) :
        /\ lastOp = "gather"
        /\ coroutines[i].pc = "awaiting"
        /\ \E o \in call_outcomes(coroutines[i], tasks[i]) :
              coroutines' = [coroutines EXCEPT ![i] = Ended(coroutines[i], o)]
        /\ finished' = Append(finished, i)
        /\ UNCHANGED <<adapters, routing_rules, tasks, args, ret, lastOp, history,
                       query, calls, heap, held, manager, accepted>>

\* every coroutine has ended: gather returns and the call converts and
\* returns the list
ReturnParallel ==
    /\ lastOp = "gather"
    /\ \A i \in 1..Len(coroutines) : coroutines[i].pc = "done"
    /\ ret' = route_tasks_parallel(tasks, gather(coroutines, finished))
    /\ lastOp' = "route_tasks_parallel"
    /\ UNCHANGED <<adapters, routing_rules, tasks, args, coroutines, finished,
                   history, query, calls, heap, held, manager, accepted>>

NextParallel == CallParallel \/ StartRouting \/ AdapterCallEnds \/ ReturnParallel

SpecParallel == InitParallel /\ [][NextParallel]_vars

(***************************************************************************)
(* Properties.                                                             *)
(***************************************************************************)
Last(seq) == seq[Len(seq)]

\* every character of q is white space (q may be empty)
IsBlank(q) == \A i \in 1..Len(q) : Ch(q, i) \in {" ", "\t", "\n", "\r"}

\* C1: a process_query call that returns success=true makes the history
\* exactly one entry longer; one that returns success=false leaves the
\* history as it was.
C1_LoggedIffSuccess ==
    [][lastOp' = "process_query" =>
          IF ret'.success
          THEN Len(history') = Len(history) + 1
          ELSE history' = history]_vars

\* a failed call that comes after a logged one has kept the entry
C1_Witness ==
    /\ lastOp = "process_query"
    /\ ~ret.success
    /\ calls # <<>>
    /\ Len(history) = 1

\* C2: when the solver returns the result "Error", process_query returns
\* success=true and the result "Error", and the history ends with an entry
\* of this query whose result is "Error".
C2_SolverErrorIsSuccess ==
    (lastOp = "process_query" /\ ~IsBlank(query) /\ ~solved(query).out.raised
        /\ solved(query).out.result = "Error")
    => /\ ret.success
       /\ ret.result = "Error"
       /\ history # <<>>
       /\ Last(history).query = query
       /\ Last(history).result = "Error"

\* two solver-level errors (no comparison pattern, then an equation that
\* does not parse) have been logged one after the other
C2_Witness ==
    /\ lastOp = "process_query"
    /\ ret.success
    /\ ret.result = "Error"
    /\ query = "x = = 3"
    /\ Len(history) = 2
    /\ history[1].query = "more than 5"
    /\ history[1].result = "Error"

\* C3: process_query on an empty or whitespace-only query returns "", the
\* text "Please enter a question." and success=false, makes no call to the
\* parser, the classifier or a solver, and leaves the history as it was.
C3_BlankQuery ==
    [][(lastOp' = "process_query" /\ IsBlank(query')) =>
          /\ ret'.result = ""
          /\ ret'.explanation = "Please enter a question."
          /\ ~ret'.success
          /\ calls' = <<>>
          /\ history' = history]_vars

\* a whitespace-only query was given to an instance with a logged entry
C3_Witness ==
    /\ lastOp = "process_query"
    /\ query = "  "
    /\ ~ret.success
    /\ Len(history) = 1

\* C4: when the solver raises, process_query returns "", an explanation
\* that holds the exception's message and the advice to rephrase, and
\* success=false, and leaves the history as it was.
C4_ExceptionIsCaught ==
    [][(lastOp' = "process_query" /\ ~IsBlank(query') /\ solved(query').out.raised) =>
          /\ ret'.result = ""
          /\ Contains(ret'.explanation, solved(query').out.msg)
          /\ Contains(ret'.explanation, "Try rephrasing your question")
          /\ ~ret'.success
          /\ history' = history]_vars

\* the multi-step solver divided by 0 on an instance with a logged entry
C4_Witness ==
    /\ lastOp = "process_query"
    /\ query = "5 then divide by 0"
    /\ Contains(ret.explanation, "division by zero")
    /\ Len(history) = 1

\* C5: process_query either leaves the history as it was (the call failed)
\* or appends to it the entry of this call (the call succeeded): the
\* entries before stay, in their order and unmodified; the history changes
\* in no other way but by clear_history.
C5_AppendOnly ==
    [][\/ lastOp' = "clear_history"
       \/ (~ret'.success /\ history' = history)
       \/ /\ lastOp' = "process_query"
          /\ ret'.success
          /\ Len(history') = Len(history) + 1
          /\ SubSeq(history', 1, Len(history)) = history
          /\ Last(history').query = query'
          /\ Last(history').result = ret'.result
          /\ Last(history').explanation = ret'.explanation]_vars

\* the same query was logged twice in a row: no deduplication
C5_Witness ==
    /\ lastOp = "process_query"
    /\ Len(history) = MaxHist
    /\ history[MaxHist] = history[MaxHist - 1]

\* C6: a get_history call that follows a clear_history call returns the
\* empty sequence.
C6_ClearThenGet ==
    [][(lastOp = "clear_history" /\ lastOp' = "get_history") => ret'.list = <<>>]_vars

\* get_history returned the empty list, after a query had been logged
C6_Witness ==
    /\ lastOp = "get_history"
    /\ ret.list = <<>>
    /\ Len(calls) = 4

\* C7: get_history leaves the history as it was, returns it, and returns
\* the same sequence again when called twice in a row.
C7_GetHistoryPure ==
    [][lastOp' = "get_history" =>
          /\ history' = history
          /\ ret'.list = history
          /\ (lastOp = "get_history" => ret'.list = ret.list)]_vars

\* get_history returned a full history
C7_Witness ==
    /\ lastOp = "get_history"
    /\ Len(ret.list) = MaxHist
    /\ ret.list = history

\* the categories in the order of their rules
RuleOrder ==
    <<"multi_step", "percentage", "equation", "comparison", "rate", "average", "arithmetic">>

\* the rule of a category matches the normalized text n
RuleMatches(category, n) ==
    IF category = "multi_step"
    THEN \E w \in {"then", "after that", "first", "next", "finally"} : Contains(n, w)
    ELSE IF category = "percentage"
    THEN \E w \in {"%", "percent", "percentage", "discount", "tax", "tip"} : Contains(n, w)
    ELSE IF category = "equation"
    THEN /\ \E w \in {"x", "y", "unknown", "what number", "how many", "how much"} :
                Contains(n, w)
         /\ Contains(n, "=")
    ELSE IF category = "comparison"
    THEN \E w \in {"twice", "double", "triple", "half", "times as much", "more than",
                   "less than"} : Contains(n, w)
    ELSE IF category = "rate"
    THEN /\ \E w \in {"per", "an hour", "per hour", "each", "at"} : Contains(n, w)
         /\ \E w \in {"work", "worked", "earn", "make", "buy", "cost", "speed", "dollar",
                      "$"} : Contains(n, w)
    ELSE IF category = "average"
    THEN \E w \in {"average", "mean", "median"} : Contains(n, w)
    ELSE TRUE

\* C8: classify_problem returns the category of the first rule, in the
\* order multi_step, percentage, equation, comparison, rate, average,
\* arithmetic, that matches the text, whatever later rules match too; a
\* text with "then" and "%" is multi_step.
C8_FirstRuleWins ==
    lastOp = "classify_problem" =>
        /\ \E k \in 1..Len(RuleOrder) :
              /\ RuleMatches(RuleOrder[k], strip(lower(query)))
              /\ \A j \in 1..(k - 1) : ~RuleMatches(RuleOrder[j], strip(lower(query)))
              /\ ret.category = RuleOrder[k]
        /\ (Contains(lower(query), "then") /\ Contains(query, "%"))
              => ret.category = "multi_step"

\* a text with "%" before "then" was classified multi_step
C8_Witness ==
    /\ lastOp = "classify_problem"
    /\ query = "% then"
    /\ ret.category = "multi_step"

\* C9: on a successful call the explanation is the solver's explanation,
\* followed by the confidence note exactly when the confidence is below
\* 0.8, which is exactly when the category is arithmetic (0.70 or 0.50);
\* the result is the solver's result, the solver is the one of the
\* category, and the logged explanation is the returned one.
C9_ConfidenceNote ==
    (lastOp = "process_query" /\ ret.success) =>
        /\ Last(history).explanation = ret.explanation
        /\ Last(history).confidence \in {95, 92, 90, 70, 50}
        /\ (Last(history).confidence < 80) = (Last(history).type = "arithmetic")
        /\ (Last(history).confidence < 80) = (Last(history).confidence \in {70, 50})
        /\ Contains(ret.explanation, "(Confidence: ") = (Last(history).confidence < 80)
        /\ ret.explanation =
              solved(query).out.explanation \o
                  (IF Last(history).confidence = 70
                   THEN "\n\n(Confidence: 70% - If incorrect, try rephrasing)"
                   ELSE IF Last(history).confidence = 50
                   THEN "\n\n(Confidence: 50% - If incorrect, try rephrasing)"
                   ELSE "")
        /\ ret.result = solved(query).out.result
        /\ calls[3] = solver_name(Last(history).type)

\* an arithmetic answer of confidence 0.70 was returned with the note
C9_Witness ==
    /\ lastOp = "process_query"
    /\ ret.success
    /\ Last(history).confidence = 70
    /\ Contains(ret.explanation, "(Confidence: 70%")

\* C10: the explanation process_query returns is never the empty text.
C10_ExplanationNotEmpty == lastOp = "process_query" => ret.explanation # ""

\* the equation solver found no solution and explained what it did
C10_Witness ==
    /\ lastOp = "process_query"
    /\ ret.result = "No solution"
    /\ Contains(ret.explanation, "Solution: []")

\* the stages a call has gone through, by the calls it made
Stages(made) ==
    [i \in 1..Len(made) |->
        IF made[i] = "parse_input" THEN "Normalizing"
        ELSE IF made[i] = "classify_problem" THEN "Classifying"
        ELSE IF made[i] = "history.append" THEN "Logging"
        ELSE "Solving"]

\* C11 as stated: every process_query call on non-blank input goes through
\* Normalizing, Classifying, Solving, Logging and then returns.
C11_EveryCallLogs ==
    (lastOp = "process_query" /\ ~IsBlank(query)) =>
        Stages(calls) = <<"Normalizing", "Classifying", "Solving", "Logging">>

\* C11: a process_query call on non-blank input goes through Normalizing,
\* Classifying and Solving in this order, calling exactly one solver, the
\* one of the classified category; when the solver returns, Logging follows
\* (one entry appended, after the solver) and the call returns success;
\* when the solver raises, nothing is logged and the call returns failure.
\* No stage is repeated.
C11_StageOrder ==
    [][(lastOp' = "process_query" /\ ~IsBlank(query')) =>
          /\ SubSeq(calls', 1, 3) =
                <<"parse_input", "classify_problem",
                  solver_name(classify_problem(parse_input(query'))[1])>>
          /\ \A i, j \in 1..Len(calls') : i # j => calls'[i] # calls'[j]
          /\ IF dispatch(classify_problem(parse_input(query'))[1],
                         parse_input(query')).raised
             THEN /\ Stages(calls') = <<"Normalizing", "Classifying", "Solving">>
                  /\ history' = history
                  /\ ~ret'.success
             ELSE /\ Stages(calls') = <<"Normalizing", "Classifying", "Solving", "Logging">>
                  /\ Len(history') = Len(history) + 1
                  /\ Last(history').query = query'
                  /\ ret'.success]_vars

\* after a logged equation call, a multi-step call raised in its solver and
\* returned without Logging
C11_Witness ==
    /\ lastOp = "process_query"
    /\ calls = <<"parse_input", "classify_problem", "solve_multi_step">>
    /\ ~ret.success
    /\ Len(history) = 1
    /\ history[1].type = "equation"

\* how many numbers the text holds (maximal digit runs with an optional
\* fraction)
NumberCount(text) == Len(findall_numbers(text))

\* C12: a solver given too few operands returns ("Error", guidance) with a
\* non-empty guidance and does not raise: the rate, percentage, average and
\* arithmetic solvers on fewer than 2 numbers, the multi-step solver on no
\* number; a process_query call classified arithmetic on fewer than 2
\* numbers returns the result "Error".
C12_TooFewOperands ==
    /\ (/\ lastOp \in {"solve_rate_problem", "solve_percentage_advanced",
                       "solve_average_advanced", "solve_arithmetic_advanced"}
        /\ NumberCount(query) < 2)
          => (~ret.raised /\ ret.result = "Error" /\ ret.explanation # "")
    /\ (lastOp = "solve_multi_step" /\ NumberCount(query) = 0)
          => (~ret.raised /\ ret.result = "Error" /\ ret.explanation # "")
    /\ (/\ lastOp = "process_query"
        /\ ~IsBlank(query)
        /\ classify_problem(parse_input(query))[1] = "arithmetic"
        /\ NumberCount(query) < 2)
          => (/\ ret.success
              /\ ret.result = "Error"
              /\ ret.explanation # ""
              /\ Last(history).type = "arithmetic")

\* the arithmetic solver was given one number and returned the Error outcome
C12_Witness ==
    /\ lastOp = "solve_arithmetic_advanced"
    /\ query = "7"
    /\ ~ret.raised
    /\ ret.result = "Error"
    /\ ret.explanation = "Need at least 2 numbers for arithmetic"

\* a phrase "X% of Y" starts at position i of the text: a number, "% of ",
\* a number
PercentOfAt(text, i) ==
    /\ NumberMatch(text, i) > 0
    /\ (i = 1 \/ ~IsDigit(Ch(text, i - 1)))
    /\ StartsAt(text, i + NumberMatch(text, i), "% of ")
    /\ NumberMatch(text, i + NumberMatch(text, i) + 5) > 0

\* the number that starts at position i of the text
NumberAt(text, i) == float(SubSeq(text, i, i + NumberMatch(text, i) - 1))

\* (X/100)*Y for the phrase "X% of Y" at position i
PercentOfValue(text, i) ==
    RMul(RDiv(NumberAt(text, i), RInt(100)),
         NumberAt(text, i + NumberMatch(text, i) + 5))

\* C13: on a text with a phrase "X% of Y" (so with at least 2 numbers) the
\* percentage solver returns (X/100)*Y for the X and Y of the phrase.
C13_PercentOfPhrase ==
    lastOp = "solve_percentage_advanced" =>
        \A i \in 1..Len(query) :
            PercentOfAt(query, i) =>
                (~ret.raised /\ ret.result = str(PercentOfValue(query, i)))

\* the text holds a keyword of the multiplier table
HasTableKeyword(text) ==
    \E w \in {"twice", "double", "triple", "half", "third", "quarter"} : Contains(text, w)

\* the multiplier of the first keyword, in table order, that the text holds
TableMultiplier(text) ==
    IF Contains(text, "twice") THEN Rat(2, 1)
    ELSE IF Contains(text, "double") THEN Rat(2, 1)
    ELSE IF Contains(text, "triple") THEN Rat(3, 1)
    ELSE IF Contains(text, "half") THEN Rat(1, 2)
    ELSE IF Contains(text, "third") THEN Rat(1, 3)
    ELSE Rat(1, 4)

\* the k-th number of the text
Number(text, k) == float(findall_numbers(text)[k])

\* C14: when the normalized text holds a keyword of the multiplier table
\* and the text holds a number, the comparison solver returns the first
\* number times the multiplier of the first keyword in table order (twice
\* 2, double 2, triple 3, half 0.5, third 1/3, quarter 0.25) that the text
\* holds, wherever the keywords stand.
C14_TableLookup ==
    (/\ lastOp = "solve_comparison_problem"
     /\ HasTableKeyword(strip(lower(query)))
     /\ NumberCount(query) >= 1)
        => /\ ~ret.raised
           /\ ret.result = str(RMul(Number(query, 1), TableMultiplier(strip(lower(query)))))

\* "half" stands before "twice" in the text and the result is twice 50
C14_Witness ==
    /\ lastOp = "solve_comparison_problem"
    /\ query = "half twice 50"
    /\ ret.result = "100.0"

\* C15: on a text without a keyword of the multiplier table and with at
\* least 2 numbers, the comparison solver returns numbers[1] + numbers[0]
\* when the text holds "more than", and numbers[1] - numbers[0] when it
\* holds "less than" (and not "more than"); when the text has neither a
\* table keyword with a number nor one of the two phrases with 2 numbers,
\* the solver returns the Error outcome.
C15_MoreLessThan ==
    lastOp = "solve_comparison_problem" =>
        /\ ~ret.raised
        /\ (/\ ~HasTableKeyword(strip(lower(query)))
            /\ NumberCount(query) >= 2
            /\ Contains(strip(lower(query)), "more than"))
              => ret.result = str(RAdd(Number(query, 2), Number(query, 1)))
        /\ (/\ ~HasTableKeyword(strip(lower(query)))
            /\ NumberCount(query) >= 2
            /\ Contains(strip(lower(query)), "less than")
            /\ ~Contains(strip(lower(query)), "more than"))
              => ret.result = str(RSub(Number(query, 2), Number(query, 1)))
        /\ (/\ ~(HasTableKeyword(strip(lower(query))) /\ NumberCount(query) >= 1)
            /\ ~(/\ NumberCount(query) >= 2
                 /\ \/ Contains(strip(lower(query)), "more than")
                    \/ Contains(strip(lower(query)), "less than")))
              => (ret.result = "Error" /\ ret.explanation # "")

\* "5 less than 20" gave 20 - 5
C15_Witness ==
    /\ lastOp = "solve_comparison_problem"
    /\ query = "5 less than 20"
    /\ ret.result = "15.0"

\* the operation of a segment, by the precedence add, subtract, multiply,
\* divide of the operation words it holds
SegmentOperation(seg) ==
    IF \E w \in {"add", "plus", "+"} : Contains(seg, w) THEN "add"
    ELSE IF \E w \in {"subtract", "minus", "-"} : Contains(seg, w) THEN "subtract"
    ELSE IF \E w \in {"multiply", "times", "*"} : Contains(seg, w) THEN "multiply"
    ELSE IF \E w \in {"divide", "/"} : Contains(seg, w) THEN "divide"
    ELSE "none"

\* the accumulator acc = [ok, v] after the operation op with the value
\* val; ok is FALSE once a division by zero has happened
Accumulate(acc, op, percent, val) ==
    IF ~acc.ok THEN acc
    ELSE IF op = "add"
    THEN [acc EXCEPT !.v = IF percent THEN RAdd(@, RMul(@, RDiv(val, RInt(100))))
                           ELSE RAdd(@, val)]
    ELSE IF op = "subtract"
    THEN [acc EXCEPT !.v = IF percent THEN RSub(@, RMul(@, RDiv(val, RInt(100))))
                           ELSE RSub(@, val)]
    ELSE IF op = "multiply" THEN [acc EXCEPT !.v = RMul(@, val)]
    ELSE IF op = "divide"
    THEN (IF val = RZero THEN [acc EXCEPT !.ok = FALSE] ELSE [acc EXCEPT !.v = RDiv(@, val)])
    ELSE acc

RECURSIVE Fold(_, _)
\* the left-to-right fold of the segments into the accumulator
Fold(acc, segs) ==
    IF segs = <<>> THEN acc
    ELSE IF NumberCount(segs[1]) = 0 THEN Fold(acc, Tail(segs))
    ELSE Fold(Accumulate(acc, SegmentOperation(segs[1]),
                         Contains(segs[1], "%") \/ Contains(segs[1], "percent"),
                         Number(segs[1], 1)),
              Tail(segs))

\* the solver call ended as the fold did
EndedAs(acc) == IF acc.ok THEN ~ret.raised /\ ret.result = str(acc.v) ELSE ret.raised

\* C16: the result of the multi-step solver is the left-to-right fold over
\* the segments after the first (the normalized text split on "then",
\* "after that", "next" and ","), from the first number of the text, each
\* segment applying its operation to its first number, with a
\* percent-marked add or subtract changing the accumulator by
\* accumulator*value/100; "Start with 100, add 10%, then subtract 30" gives
\* 110 and then 80.
C16_MultiStepFold ==
    (lastOp = "solve_multi_step" /\ NumberCount(query) >= 1) =>
        /\ EndedAs(Fold([ok |-> TRUE, v |-> Number(query, 1)],
                        Tail(split_steps(strip(lower(query))))))
        /\ query = "Start with 100, add 10%, then subtract 30"
              => /\ ret.result = "80.0"
                 /\ Contains(ret.explanation, "100.00 + 10.00 = 110.00")
                 /\ Contains(ret.explanation, "110.0 - 30.0 = 80.0")

\* a chain of four segments with a percent step, a skipped segment and a
\* division was folded: (100 + 10%) / 2 = 55
C16_Witness ==
    /\ lastOp = "solve_multi_step"
    /\ query = "100 after that plus 10 percent next 4 next divide 2"
    /\ ret.result = "55.0"

\* the x with a*x + b = c
Root(a, b, c) == Rat(c - b, a)

\* C17: an input "solve a x + b = c" with a non-zero digit a written
\* directly before x is classified equation, and the equation solver
\* returns the x that satisfies a*x + b = c; process_query returns it with
\* success=true.  "solve 2x + 5 = 17" gives 6.
C17_LinearEquation ==
    /\ \A a \in 1..9, b \in {0, 5}, c \in {5, 17} :
          query = EquationText(a, b, c) =>
              /\ RAdd(RMul(RInt(a), Root(a, b, c)), RInt(b)) = RInt(c)
              /\ lastOp = "solve_equation_advanced"
                    => (~ret.raised /\ ret.result = sympy_str(Root(a, b, c)))
              /\ lastOp = "process_query"
                    => /\ ret.success
                       /\ ret.result = sympy_str(Root(a, b, c))
                       /\ Last(history).type = "equation"
                       /\ calls[3] = "solve_equation_advanced"
    /\ (query = "solve 2x + 5 = 17" /\ lastOp = "process_query") => ret.result = "6"

\* process_query classified "solve 4x + 5 = 17" as an equation and returned 3
C17_Witness ==
    /\ lastOp = "process_query"
    /\ query = "solve 4x + 5 = 17"
    /\ ret.success
    /\ ret.result = "3"
    /\ history[1].type = "equation"

\* how many "=" the text holds
EqualsCount(text) == Cardinality({i \in 1..Len(text) : Ch(text, i) = "="})

UnpackError ==
    "Could not solve equation: too many values to unpack (expected 2)\n"
        \o "Try: 'solve 2x + 5 = 17'"

\* C18 as stated: on a text with two or more "=" the equation solver gets
\* a left side (the text before the first "=") and a right side (all the
\* text after it) and goes on to solve the equation of the two: the split
\* into two sides does not fail.
C18_SplitOnFirstEquals ==
    (lastOp = "solve_equation_advanced" /\ EqualsCount(query) >= 2) =>
        ~Contains(ret.explanation, "too many values to unpack")

\* C18: the equation solver splits the text on every "=".  On a text with
\* one "=" the left side is the text before it and the right side the
\* text after it, and the equation of the two is the one solved; on a text
\* with two or more "=" no equation is built and the solver returns the
\* Error outcome of a failed unpacking into two sides, without raising.
C18_SplitOnEveryEquals ==
    lastOp = "solve_equation_advanced" =>
        /\ EqualsCount(query) >= 2
              => (~ret.raised /\ ret.result = "Error" /\ ret.explanation = UnpackError)
        /\ EqualsCount(query) = 1
              => /\ ~Contains(ret.explanation, "too many values to unpack")
                 /\ \A a \in 1..9, b \in {0, 5}, c \in {5, 17} :
                       query = EquationText(a, b, c) =>
                           /\ Contains(ret.explanation,
                                  "Left side: " \o expr_str([a |-> RInt(a), c |-> RInt(b)]))
                           /\ Contains(ret.explanation,
                                  "Right side: " \o DigitsOfNat(c) \o "\n")

\* "x = 3 = 3" was answered with the Error outcome of the failed unpacking
C18_Witness ==
    /\ lastOp = "solve_equation_advanced"
    /\ query = "x = 3 = 3"
    /\ ret.result = "Error"
    /\ ret.explanation = UnpackError

HasIncreaseTrigger(text) == \E w \in {"increase", "raise", "add"} : Contains(text, w)

HasDecreaseTrigger(text) == \E w \in {"decrease", "discount", "reduce"} : Contains(text, w)

\* C19 as stated: on a text with an increase/raise/add trigger, no "of" and
\* one number n the percentage solver returns n + (n/100)*n, and
\* n - (n/100)*n for a decrease/discount/reduce trigger.
C19_SelfReference ==
    (/\ lastOp = "solve_percentage_advanced"
     /\ ~Contains(strip(lower(query)), "of")
     /\ NumberCount(query) = 1)
        => /\ HasIncreaseTrigger(strip(lower(query)))
                => ret.result =
                      str(RAdd(Number(query, 1),
                               RMul(RDiv(Number(query, 1), RInt(100)), Number(query, 1))))
           /\ (/\ HasDecreaseTrigger(strip(lower(query)))
               /\ ~HasIncreaseTrigger(strip(lower(query))))
                => ret.result =
                      str(RSub(Number(query, 1),
                               RMul(RDiv(Number(query, 1), RInt(100)), Number(query, 1))))

\* C19: on a text without "of" the percentage solver returns the Error
\* outcome when only one number was extracted, whatever trigger the text
\* holds; with at least 2 numbers it returns
\* numbers[0] + (numbers[1]/100)*numbers[0] for an increase/raise/add
\* trigger and numbers[0] - (numbers[1]/100)*numbers[0] for a
\* decrease/discount/reduce trigger (and no increase trigger).
C19_TriggerNeedsTwoNumbers ==
    (lastOp = "solve_percentage_advanced" /\ ~Contains(strip(lower(query)), "of")) =>
        /\ ~ret.raised
        /\ NumberCount(query) = 1
              => /\ ret.result = "Error"
                 /\ ret.explanation = "Need at least 2 numbers for percentage problems"
        /\ (NumberCount(query) >= 2 /\ HasIncreaseTrigger(strip(lower(query))))
              => ret.result =
                    str(RAdd(Number(query, 1),
                             RMul(RDiv(Number(query, 2), RInt(100)), Number(query, 1))))
        /\ (/\ NumberCount(query) >= 2
            /\ HasDecreaseTrigger(strip(lower(query)))
            /\ ~HasIncreaseTrigger(strip(lower(query))))
              => ret.result =
                    str(RSub(Number(query, 1),
                             RMul(RDiv(Number(query, 2), RInt(100)), Number(query, 1))))

\* "increase 7%" has a trigger and one number and was answered with Error
C19_Witness ==
    /\ lastOp = "solve_percentage_advanced"
    /\ query = "increase 7%"
    /\ ret.result = "Error"

\* the precedence rank of an operation word: add 1, subtract 2, multiply 3,
\* divide 4
Rank(word) ==
    IF word \in {"add", "plus", "+"} THEN 1
    ELSE IF word \in {"subtract", "minus", "-"} THEN 2
    ELSE IF word \in {"multiply", "times", "*"} THEN 3
    ELSE 4

\* 100 and 5 under the operation of a rank
Ranked(rank) ==
    IF rank = 1 THEN "105.0"
    ELSE IF rank = 2 THEN "95.0"
    ELSE IF rank = 3 THEN "500.0"
    ELSE "20.0"

\* C20: a segment of the multi-step solver with a number applies one
\* operation, the one of highest precedence (add/plus/+ over
\* subtract/minus/- over multiply/times/* over divide//) among the
\* operation words it holds, in whatever order the words stand: from 100,
\* a segment with the words a and b and the number 5 gives 100 and 5 under
\* the operation of the lower rank of a and b.
C20_KeywordPrecedence ==
    lastOp = "solve_multi_step" =>
        /\ \A a \in StepWords, b \in StepWords :
              query = "100, " \o a \o " " \o b \o " 5" =>
                  /\ ~ret.raised
                  /\ ret.result = Ranked(IF Rank(a) <= Rank(b) THEN Rank(a) ELSE Rank(b))
        /\ \A a \in StepWords :
              query = "100, " \o a \o " 5" => (~ret.raised /\ ret.result = Ranked(Rank(a)))

\* "times" stands before "minus" in the segment and the subtraction was made
C20_Witness ==
    /\ lastOp = "solve_multi_step"
    /\ query = "100, times minus 5"
    /\ ret.result = "95.0"

\* the segments of the normalized text
SegmentsOf(text) == split_steps(strip(lower(text)))

\* the text of the segments without the k-th
WithoutSegment(text, k) ==
    Join(SubSeq(SegmentsOf(text), 1, k - 1)
            \o SubSeq(SegmentsOf(text), k + 1, Len(SegmentsOf(text))), ",")

\* the segment holds no number or no operation word
IsSkipped(seg) == NumberCount(seg) = 0 \/ SegmentOperation(seg) = "none"

\* the solver call ended as the call out did: the same result, or both raised
SameOutcome(out) ==
    /\ ret.raised = out.raised
    /\ ret.result = out.result

\* C21 as stated: the result of the multi-step solver on a text with a
\* segment, after the first, that holds no number or no operation word is
\* the result on the text with that segment removed.
C21_SkippedSegmentRemovable ==
    lastOp = "solve_multi_step" =>
        \A k \in 2..Len(SegmentsOf(query)) :
            IsSkipped(SegmentsOf(query)[k])
                => SameOutcome(solve_multi_step(parse_input(WithoutSegment(query, k))))

\* C21: a segment, after the first, that holds no number or no operation
\* word leaves the accumulator as it is and causes no error: when the
\* first number of the text stands before that segment, the result is the
\* result on the text with the segment removed.
C21_SkippedSegment ==
    lastOp = "solve_multi_step" =>
        \A k \in 2..Len(SegmentsOf(query)) :
            (/\ IsSkipped(SegmentsOf(query)[k])
             /\ NumberCount(Join(SubSeq(SegmentsOf(query), 1, k - 1), ",")) >= 1)
                => SameOutcome(solve_multi_step(parse_input(WithoutSegment(query, k))))

\* the segment "2 apples" has a number and no operation word, and was skipped
C21_Witness ==
    /\ lastOp = "solve_multi_step"
    /\ query = "10, 2 apples, then add 1"
    /\ IsSkipped(SegmentsOf(query)[2])
    /\ ret.result = "11.0"

\* C22: given at least 2 numbers the arithmetic solver returns a value and
\* never "Error", and does not raise: the value of the expression when the
\* explanation reports an evaluation, and the sum of all the numbers of the
\* text when it reports that the expression could not be parsed.
C22_ArithmeticFallback ==
    (lastOp = "solve_arithmetic_advanced" /\ NumberCount(query) >= 2) =>
        /\ ~ret.raised
        /\ ret.result # "Error"
        /\ IF Contains(ret.explanation, "Could not parse expression, summing numbers")
           THEN ret.result = str(RSum(MapFloat(findall_numbers(query))))
           ELSE /\ Contains(ret.explanation, "STEP 2: Evaluate")
                /\ Contains(ret.explanation, "Result: " \o ret.result \o "\n")
        /\ query = "15 + 25 * 2"
              => (ret.result = "65.0" /\ Contains(ret.explanation, "STEP 2: Evaluate"))
        /\ query = "2 * / 3" => ret.result = "5.0"

\* "2 * / 3" is no expression and was answered with the sum 2 + 3
C22_Witness ==
    /\ lastOp = "solve_arithmetic_advanced"
    /\ query = "2 * / 3"
    /\ ret.result = "5.0"
    /\ Contains(ret.explanation, "Could not parse expression, summing numbers")

\* the triple a call returned
Triple(r) == <<r.result, r.explanation, r.success>>

\* C23: the triple process_query returns depends on the query text alone:
\* whatever the history of the instance is, the call returns the triple an
\* instance with an empty history returns for the same query.
C23_TripleDependsOnQuery ==
    [][lastOp' = "process_query"
          => Triple(ret') = Triple(process_query(<<>>, query'))]_vars

\* the same query was asked twice in a row and answered with the same
\* explanation both times
C23_Witness ==
    /\ lastOp = "process_query"
    /\ Len(history) = 2
    /\ history[1].query = query
    /\ history[2].query = query
    /\ history[1].explanation = ret.explanation
    /\ history[1].result = ret.result

\* the text is about money: "$" in the original text or "dollar" in the
\* normalized text
IsCurrency(text) == Contains(text, "$") \/ Contains(strip(lower(text)), "dollar")

\* C24: given at least 2 numbers the rate solver returns
\* numbers[0] * numbers[1], as currency ("$", thousands separators, two
\* decimals) exactly when the original text holds "$" or the normalized
\* text holds "dollar", and as a plain number otherwise; a wage or shopping
\* context changes the wording of the explanation only.
C24_RateProduct ==
    (lastOp = "solve_rate_problem" /\ NumberCount(query) >= 2) =>
        /\ ~ret.raised
        /\ ret.result =
              IF IsCurrency(query)
              THEN "$" \o fmt_money(RMul(Number(query, 1), Number(query, 2)))
              ELSE str(RMul(Number(query, 1), Number(query, 2)))
        /\ IsCurrency(query) = StartsAt(ret.result, 1, "$")
        /\ IsCurrency(query) => Ch(ret.result, Len(ret.result) - 2) = "."
        /\ query = "If I work 40 hours at $25/hour, how much do I make?"
              => (ret.result = "$1,000.00" /\ Contains(ret.explanation, "Hours worked: 25.0"))
        /\ query = "worked 40 hours at 25 per hour"
              => (ret.result = "1000.0" /\ Contains(ret.explanation, "Hours worked: 25.0"))
        /\ query = "buy 12 items, each cost 8"
              => (ret.result = "96.0" /\ Contains(ret.explanation, "Number of items: 8.0"))
        /\ query = "speed 60 at 2"
              => (ret.result = "120.0" /\ Contains(ret.explanation, "Quantity: 2.0"))

\* "Dollar" is in the text with a capital letter and the value 36 was
\* returned as currency
C24_Witness ==
    /\ lastOp = "solve_rate_problem"
    /\ query = "12 Dollar 3"
    /\ ret.result = "$36.00"

\* C25: clear_history binds self.history to a new empty list and leaves the
\* old list object alone: a list the caller got from get_history before the
\* clear still holds every entry it had, and a get_history call made after
\* the clear returns the empty list.
C25_ClearRebinds ==
    [][/\ lastOp' = "clear_history" =>
            /\ heap'[history'] = <<>>
            /\ held # None => (held' = held /\ heap'[held'] = heap[held])
       /\ (lastOp = "clear_history" /\ lastOp' = "get_history") =>
            (ret'.list = <<>> /\ heap'[held'] = <<>>)]_vars

\* the caller holds the list that was self.history before the clear, with
\* the entries of two calls
C25_Witness ==
    /\ lastOp = "clear_history"
    /\ held # None
    /\ held # history
    /\ Len(heap[held]) = 2
    /\ heap[history] = <<>>

\* the last n elements of seq
Newest(seq, n) == [k \in 1..n |-> seq[Len(seq) - n + k]]

\* the message of the last add_message call, as it is stored
Sent == [role |-> args[1], content |-> strip(args[2])]

\* C26: the history of a ConversationManager never holds more than
\* MAX_HISTORY_LENGTH (20) messages and they are the most recently accepted
\* messages in the order they were added; an accepted message is put at the
\* end, and when that makes the history longer than 20 the two oldest
\* messages are dropped.
C26_HistoryBounded ==
    /\ [](/\ Len(manager.history) <= MAX_HISTORY_LENGTH
          /\ Len(manager.history) <= Len(accepted)
          /\ manager.history = Newest(accepted, Len(manager.history)))
    /\ [][(lastOp' = "add_message" /\ ret'.outcome = "added") =>
             IF Len(manager.history) + 1 > MAX_HISTORY_LENGTH
             THEN /\ Len(manager.history') = Len(manager.history) - 1
                  /\ manager.history' =
                        Newest(manager.history, Len(manager.history) - 2) \o <<Sent'>>
             ELSE manager.history' = manager.history \o <<Sent'>>]_vars

\* a message was accepted with 20 in the history and the two oldest were
\* dropped
C26_Witness ==
    /\ lastOp = "add_message"
    /\ ret.outcome = "added"
    /\ Len(manager.history) = MAX_HISTORY_LENGTH - 1
    /\ Len(accepted) = MAX_HISTORY_LENGTH + 1
    /\ manager.history[1] = exchange(3)

\* two entries next to each other in h have the same role and content
HasRepeat(h) == \E i \in 1..(Len(h) - 1) : h[i] = h[i + 1]

\* C27: the history never holds two adjacent entries with the same role and
\* the same content, and add_message skips a message as a duplicate only
\* when it equals the message that was added immediately before it.
C27_NoRepeatedMessage ==
    /\ [](~HasRepeat(manager.history))
    /\ [][(lastOp' = "add_message" /\ ret'.outcome = "duplicate") =>
             (accepted # <<>> /\ accepted[Len(accepted)] = Sent')]_vars

\* the first half of C27 alone: no two adjacent entries are the same
C27_NoAdjacentRepeat == ~HasRepeat(manager.history)

\* the second half of C27 alone: only a repeat of the last added message is
\* skipped
C27_SkipsOnlyRepeats ==
    [][(lastOp' = "add_message" /\ ret'.outcome = "duplicate") =>
          (accepted # <<>> /\ accepted[Len(accepted)] = Sent')]_vars

\* the adapter the documented priority of route_task names for a task type:
\* the rule's adapter, else the first registered adapter that supports the
\* type, else the first registered adapter; "None" when there is none
Documented(ads, rules, task_type) ==
    IF has_rule(rules, task_type) THEN rule_of(rules, task_type)
    ELSE IF \E k \in 1..Len(ads) : supports_task_type(ads[k], task_type)
    THEN ads[CHOOSE k \in 1..Len(ads) :
                /\ supports_task_type(ads[k], task_type)
                /\ \A j \in 1..(k - 1) : ~supports_task_type(ads[j], task_type)].name
    ELSE IF ads # <<>> THEN ads[1].name
    ELSE "None"

\* C28: route_task sends the task to the adapter of the rule for its type,
\* else to the first registered adapter that supports the type, else to the
\* first registered adapter; it raises ValueError only when there is no
\* adapter to be found.
C28_RoutingPriority ==
    lastOp = "route_task" =>
        LET want == Documented(adapters, routing_rules, args.task_type)
        IN  IF want = "None"
            THEN ret.raised /\ ret.error_type = "ValueError"
            ELSE ret.adapter = want /\ ret.error_type # "ValueError"

\* the fallback alone: with adapters registered and no rule for the type,
\* route_task does not raise ValueError
C28_Fallback ==
    (lastOp = "route_task" /\ adapters # <<>> /\ ~has_rule(routing_rules, args.task_type))
        => ret.error_type # "ValueError"

\* C29: every routing rule names a registered adapter, so that route_task
\* finds the adapter of a rule; set_routing_rule for an adapter that is not
\* registered raises ValueError and leaves the rules as they were.
C29_RulesNameAdapters ==
    /\ [](\A p \in routing_rules : registered(adapters, p[2]))
    /\ [][/\ (lastOp' = "route_task" /\ has_rule(routing_rules, args'.task_type))
               => ret'.adapter = rule_of(routing_rules, args'.task_type)
          /\ (lastOp' = "set_routing_rule" /\ ~registered(adapters, args'[2]))
               => (/\ ret'.raised
                   /\ ret'.error_type = "ValueError"
                   /\ routing_rules' = routing_rules)]_vars

\* the second half of C29 alone: set_routing_rule for an unregistered
\* adapter raises ValueError and changes no rule
C29_UnregisteredRejected ==
    [][(lastOp' = "set_routing_rule" /\ ~registered(adapters, args'[2]))
          => (/\ ret'.raised
              /\ ret'.error_type = "ValueError"
              /\ routing_rules' = routing_rules)]_vars

====
